---- MODULE Spec2Model ----
(***************************************************************************)
(* Risk assessment and alerting engine of the rAIndrop backend: the        *)
(* active-alert store and its reconciliation (api/stations.py and          *)
(* core/database/raindrop_db.py), the forecast store and its fallback      *)
(* retrieval, the observation store, and the assembly of training data     *)
(* from incident reports (core/ml).                                        *)
(*                                                                         *)
(* Probabilities are held in percent (0.50 is 50).  Timestamps are ticks   *)
(* of a logical clock: `now` is the last value read from it, and a read    *)
(* returns that value again or a later one.  An                            *)
(* optional value (a fetchone() that may be None) is a set with at most    *)
(* one element.  A table is the set of its rows; the AUTOINCREMENT id      *)
(* column, which no query of the modelled code reads, is left out.         *)
(***************************************************************************)
EXTENDS Integers, Sequences, FiniteSets, Bags, TLC

\* ------------------------------------------------------------------ bounds
MaxCalls == 3

\* ------------------------------------------------------------ alert store
Stations == {1, 2}
Hazards == {"flood", "drought"}
AlertKeys == Stations \X Hazards
Procs == {1, 2}

\* The (probability, risk_level) pairs reconcile is called with.
AlertInputs ==
    {<<49, "GREEN">>, <<50, "YELLOW">>, <<60, "RED">>}

\* _manage_alert: probability >= 0.50 raises, anything lower clears.
AlertThreshold == 50

VARIABLES
    active_alerts,  \* table active_alerts
    now,            \* the last value datetime.now(timezone.utc) returned
    calls,          \* per worker: the _manage_alert call it is inside
    applied,        \* per key: the last completed reconcile
    last_call,      \* the last completed reconcile and how often it repeated
    ncalls,         \* completed reconcile calls
    alert_errors,   \* warnings _manage_alert logged for a failed write
    history         \* bag of the completed reconcile calls (their arguments)

alertVars ==
    <<active_alerts, now, calls, applied, last_call, ncalls, alert_errors,
      history>>

VARIABLES
    weather_forecast,  \* table weather_forecast
    today,             \* date.today()
    fc_applied,        \* per (station_id, forecast_date): the last record upserted
    fc_upserts,        \* records passed to insert_or_update_forecast_data so far
    fc_query           \* the last get_forecast_by_station call and what it returned

forecastVars == <<weather_forecast, today, fc_applied, fc_upserts, fc_query>>

VARIABLES
    weather_hourly,  \* table weather_hourly
    obs_applied,     \* per (station_id, date, hour): first and last insert
    obs_inserts,     \* records passed to insert_or_update_weather_data so far
    obs_cleaned      \* cleanup_old_data has run

obsVars == <<weather_hourly, obs_applied, obs_inserts, obs_cleaned>>

VARIABLES
    incident_reports,  \* table incident_reports
    incident_seq,      \* the highest id the table has given out (AUTOINCREMENT)
    training,          \* what get_incident_training_data last returned, if
                       \* nothing it reads has changed since
    train_outcome      \* how train_model_from_history last ended, likewise

trainVars == <<incident_reports, incident_seq, training, train_outcome>>

VARIABLES
    model_artifact,  \* ml_models/risk_model.joblib exists
    fc_refresh,      \* the last run of the forecast refresh: what it saw and did
    refreshes,       \* runs of the forecast refresh so far
    prediction,      \* the last RiskPredictor.predict call and how it ended
    levels           \* the last probability a level was derived from, and the levels

mlVars == <<model_artifact, fc_refresh, refreshes, prediction, levels>>

VARIABLES
    analysis  \* the last analyze_station_risk call and what it returned, if the
              \* observations have not changed since

analysisVars == <<analysis>>

VARIABLES
    scheduler_instances,  \* per scheduled job: instances the executor is running
    job_running,          \* per job: runs of its body in progress, however started
    retrain_threads,      \* ModelRetraining threads that have not read the data yet
    retrain_log,          \* what the last ModelRetraining thread saw and decided
    incident_api          \* the last request to the incidents router and its answer

jobVars ==
    <<scheduler_instances, job_running, retrain_threads, retrain_log, incident_api>>

VARIABLES
    decay  \* the last two samples built for one incident, and their distances

decayVars == <<decay>>

VARIABLES
    api_state,  \* cache/api_state.json
    fetch_run   \* the last fetch_all_forecasts run: what it saw, called and returned

fetchVars == <<api_state, fetch_run>>

VARIABLES
    fc_all  \* the last get_all_forecasts call and what it returned

allVars == <<fc_all>>

VARIABLES
    listing,   \* the last list_all_stations response, per station and hazard
    listings   \* list_all_stations passes so far

listVars == <<listing, listings>>

vars == <<alertVars, forecastVars, obsVars, trainVars, mlVars, analysisVars,
         jobVars, decayVars, fetchVars, allVars, listVars>>

\* SELECT ... FROM active_alerts WHERE station_id = ? AND alert_type = ?
SelectAlert(store, station_id, alert_type) ==
    {r \in store : r.station_id = station_id /\ r.alert_type = alert_type}

UniqueViolationOff(store, station_id, alert_type) == FALSE

\* UNIQUE(station_id, alert_type): the INSERT is rejected (IntegrityError).
UniqueViolation(store, station_id, alert_type) ==
    SelectAlert(store, station_id, alert_type) # {}

UpdateAlertRetrigger(store, station_id, alert_type, risk_level, probability, t) ==
    {IF r.station_id = station_id /\ r.alert_type = alert_type
     THEN [r EXCEPT !.risk_level = risk_level, !.probability = probability,
                    !.updated_at = t, !.triggered_at = t]
     ELSE r : r \in store}

UpdateAlertKeepsLevel(store, station_id, alert_type, risk_level, probability, t) ==
    {IF r.station_id = station_id /\ r.alert_type = alert_type
     THEN [r EXCEPT !.probability = probability, !.updated_at = t]
     ELSE r : r \in store}

\* UPDATE active_alerts SET risk_level, probability, updated_at WHERE key:
\* triggered_at is not in the SET list.  No matching row: nothing changes.
UpdateAlert(store, station_id, alert_type, risk_level, probability, t) ==
    {IF r.station_id = station_id /\ r.alert_type = alert_type
     THEN [r EXCEPT !.risk_level = risk_level, !.probability = probability,
                    !.updated_at = t]
     ELSE r : r \in store}

\* INSERT INTO active_alerts ... VALUES (..., now, now).  A UNIQUE violation
\* raises; _manage_alert catches it and logs, the store is unchanged.
InsertAlert(store, station_id, alert_type, risk_level, probability, t) ==
    IF UniqueViolation(store, station_id, alert_type)
    THEN store
    ELSE store \cup {[station_id |-> station_id, alert_type |-> alert_type,
                      risk_level |-> risk_level, probability |-> probability,
                      triggered_at |-> t, updated_at |-> t]}

upsert_alert_replace(store, station_id, alert_type, risk_level, probability, t) ==
    InsertAlert(store \ SelectAlert(store, station_id, alert_type),
                station_id, alert_type, risk_level, probability, t)

\* upsert_alert run without interruption: SELECT, then UPDATE or INSERT.
upsert_alert(store, station_id, alert_type, risk_level, probability, t) ==
    IF SelectAlert(store, station_id, alert_type) # {}
    THEN UpdateAlert(store, station_id, alert_type, risk_level, probability, t)
    ELSE InsertAlert(store, station_id, alert_type, risk_level, probability, t)

\* DELETE FROM active_alerts WHERE station_id = ? AND alert_type = ?
remove_alert(store, station_id, alert_type) ==
    store \ SelectAlert(store, station_id, alert_type)

manage_alert_strict(store, station_id, alert_type, probability, risk_level, t) ==
    IF probability > AlertThreshold
    THEN upsert_alert(store, station_id, alert_type, risk_level, probability, t)
    ELSE remove_alert(store, station_id, alert_type)

\* _manage_alert, the reconcile of the alert manager.
manage_alert(store, station_id, alert_type, probability, risk_level, t) ==
    IF probability >= AlertThreshold
    THEN upsert_alert(store, station_id, alert_type, risk_level, probability, t)
    ELSE remove_alert(store, station_id, alert_type)

\* Bookkeeping of a completed reconcile (what was called, when, and on what).
Completed(station_id, alert_type, probability, risk_level, t, existed) ==
    LET k == <<station_id, alert_type>>
        args == <<station_id, alert_type, probability, risk_level>>
        run == {a \in applied[k] : a.probability >= AlertThreshold}
        first == IF probability >= AlertThreshold /\ run # {}
                 THEN (CHOOSE a \in run : TRUE).first ELSE t
        times == IF \E c \in last_call : c.args = args
                 THEN (CHOOSE c \in last_call : TRUE).times + 1 ELSE 1
    IN  /\ applied' = [applied EXCEPT ![k] =
                         {[probability |-> probability, risk_level |-> risk_level,
                           at |-> t, first |-> first, existed |-> existed]}]
        /\ last_call' = {[args |-> args, times |-> times]}
        /\ ncalls' = ncalls + 1
        /\ history' = history (+) SetToBag({args})

IdleCall == [pc |-> "idle", station_id |-> 0, alert_type |-> "", probability |-> 0,
             risk_level |-> "", t |-> 0, existing |-> FALSE]

AlertsIdle ==
    /\ active_alerts = {}
    /\ now = 0
    /\ calls = [p \in Procs |-> IdleCall]
    /\ applied = [k \in AlertKeys |-> {}]
    /\ last_call = {}
    /\ ncalls = 0
    /\ alert_errors = 0
    /\ history = EmptyBag

\* datetime.now(): the value read last, or a later one.
ClockReads == {now, now + 1}

\* One reconcile call, start to finish, with no other writer.
Reconcile(station_id, alert_type, probability, risk_level, t) ==
    /\ ncalls < MaxCalls
    /\ active_alerts' = manage_alert(active_alerts, station_id, alert_type,
                                     probability, risk_level, t)
    /\ Completed(station_id, alert_type, probability, risk_level, t,
                 SelectAlert(active_alerts, station_id, alert_type) # {})
    /\ now' = t
    /\ UNCHANGED <<calls, alert_errors, forecastVars, obsVars, trainVars, mlVars,
                   analysisVars, jobVars, decayVars, fetchVars, allVars, listVars>>

\* ------------------------------------------- reconcile calls that overlap
\* Each worker runs _manage_alert statement by statement: upsert_alert reads
\* the clock and SELECTs, and in a later step UPDATEs or INSERTs; remove_alert
\* is the single DELETE.  Statements of different workers interleave freely.
InFlight == {p \in Procs : calls[p].pc # "idle"}

\* _manage_alert entered with probability >= 0.50: upsert_alert up to fetchone().
BeginUpsert(p, station_id, alert_type, probability, risk_level, t) ==
    /\ calls[p].pc = "idle"
    /\ ncalls + Cardinality(InFlight) < MaxCalls
    /\ probability >= AlertThreshold
    /\ calls' = [calls EXCEPT ![p] =
                   [pc |-> "selected", station_id |-> station_id,
                    alert_type |-> alert_type, probability |-> probability,
                    risk_level |-> risk_level, t |-> t,
                    existing |-> SelectAlert(active_alerts, station_id, alert_type) # {}]]
    /\ now' = t
    /\ UNCHANGED <<active_alerts, applied, last_call, ncalls, alert_errors,
                   history, forecastVars, obsVars, trainVars, mlVars, analysisVars, jobVars,
                   decayVars, fetchVars, allVars, listVars>>

\* upsert_alert from `if existing:` to commit, and the except of _manage_alert.
FinishUpsert(p) ==
    LET c == calls[p] IN
    /\ c.pc = "selected"
    /\ active_alerts' =
           IF c.existing
           THEN UpdateAlert(active_alerts, c.station_id, c.alert_type,
                            c.risk_level, c.probability, c.t)
           ELSE InsertAlert(active_alerts, c.station_id, c.alert_type,
                            c.risk_level, c.probability, c.t)
    /\ alert_errors' =
           IF ~c.existing /\ UniqueViolation(active_alerts, c.station_id, c.alert_type)
           THEN alert_errors + 1 ELSE alert_errors
    /\ ncalls' = ncalls + 1
    /\ history' = history (+) SetToBag({<<c.station_id, c.alert_type,
                                            c.probability, c.risk_level>>})
    /\ calls' = [calls EXCEPT ![p] = IdleCall]
    /\ UNCHANGED <<now, applied, last_call, forecastVars, obsVars, trainVars, mlVars,
                   analysisVars, jobVars, decayVars, fetchVars, allVars, listVars>>

\* _manage_alert entered with probability < 0.50: remove_alert.
RemoveCall(p, station_id, alert_type, probability, risk_level) ==
    /\ calls[p].pc = "idle"
    /\ ncalls + Cardinality(InFlight) < MaxCalls
    /\ probability < AlertThreshold
    /\ active_alerts' = remove_alert(active_alerts, station_id, alert_type)
    /\ ncalls' = ncalls + 1
    /\ history' = history (+) SetToBag({<<station_id, alert_type, probability,
                                            risk_level>>})
    /\ UNCHANGED <<now, calls, applied, last_call, alert_errors, forecastVars,
                   obsVars, trainVars, mlVars, analysisVars, jobVars, decayVars,
                   fetchVars, allVars, listVars>>

\* ---------------------------------------------------------- forecast store
MaxUpserts == 3
MaxDays == 2

\* forecast_date is TEXT 'YYYY-MM-DD': dates of one width compare as the day
\* numbers do.  Day 5 is the first `today`.
FirstDay == 5
ForecastDates == {0, 5, 6, 7}
ForecastKeys == Stations \X ForecastDates

\* The thirteen weather columns (temp_max ... icon) travel together: each is
\* written from the record on INSERT and set to excluded.<column> on conflict.
WeatherValues == {"w1", "w2"}

\* The risk fields calculate_risks_for_forecasts attaches to a record.
ZeroRisk ==
    [flood_probability |-> 0, flood_level |-> "GREEN", flood_alert |-> FALSE,
     drought_probability |-> 0, drought_level |-> "GREEN", drought_alert |-> FALSE]
ComputedRisks ==
    {[flood_probability |-> 40, flood_level |-> "YELLOW", flood_alert |-> TRUE,
      drought_probability |-> 0, drought_level |-> "GREEN", drought_alert |-> FALSE],
     [flood_probability |-> 0, flood_level |-> "GREEN", flood_alert |-> FALSE,
      drought_probability |-> 80, drought_level |-> "RED", drought_alert |-> TRUE]}
RiskValues == {ZeroRisk} \cup ComputedRisks

\* record.get("flood_probability", 0.0), record.get("flood_level", "GREEN"), ...
\* and `1 if record.get("flood_alert", False) else 0`.
StoredRisk(risk) ==
    LET Bit(b) == IF b THEN 1 ELSE 0 IN
    IF risk = {}
    THEN [flood_probability |-> 0, flood_level |-> "GREEN", flood_alert |-> 0,
          drought_probability |-> 0, drought_level |-> "GREEN", drought_alert |-> 0]
    ELSE LET v == CHOOSE v \in risk : TRUE IN
         [flood_probability |-> v.flood_probability, flood_level |-> v.flood_level,
          flood_alert |-> Bit(v.flood_alert),
          drought_probability |-> v.drought_probability,
          drought_level |-> v.drought_level,
          drought_alert |-> Bit(v.drought_alert)]

\* The records a forecast refresh hands to the store; `risk` is empty when the
\* record carries no risk fields.
ForecastRecords(dates, weathers, risks, times) ==
    [station_id : Stations, forecast_date : dates, weather : weathers,
     risk : risks, retrieved_at : times]

SelectForecast(store, station_id, forecast_date) ==
    {r \in store : r.station_id = station_id /\ r.forecast_date = forecast_date}

ConflictKeepsRisk(row, record, t) ==
    [row EXCEPT !.weather = record.weather,
                !.retrieved_at = record.retrieved_at,
                !.updated_at = t]

\* ON CONFLICT(station_id, forecast_date) DO UPDATE SET ...: the weather
\* columns, the six risk columns, retrieved_at and updated_at.
ConflictUpdate(row, record, t) ==
    LET risk == StoredRisk(record.risk) IN
    [row EXCEPT !.weather = record.weather,
                !.flood_probability = risk.flood_probability,
                !.flood_level = risk.flood_level,
                !.flood_alert = risk.flood_alert,
                !.drought_probability = risk.drought_probability,
                !.drought_level = risk.drought_level,
                !.drought_alert = risk.drought_alert,
                !.retrieved_at = record.retrieved_at,
                !.updated_at = t]

\* One INSERT ... ON CONFLICT DO UPDATE of insert_or_update_forecast_data.
UpsertForecastRow(store, record, t) ==
    LET old == SelectForecast(store, record.station_id, record.forecast_date)
        risk == StoredRisk(record.risk)
    IN  IF old # {}
        THEN (store \ old) \cup {ConflictUpdate(r, record, t) : r \in old}
        ELSE store \cup
               {[station_id |-> record.station_id,
                 forecast_date |-> record.forecast_date,
                 weather |-> record.weather,
                 flood_probability |-> risk.flood_probability,
                 flood_level |-> risk.flood_level,
                 flood_alert |-> risk.flood_alert,
                 drought_probability |-> risk.drought_probability,
                 drought_level |-> risk.drought_level,
                 drought_alert |-> risk.drought_alert,
                 retrieved_at |-> record.retrieved_at,
                 created_at |-> t, updated_at |-> t]}

\* insert_or_update_forecast_data: the loop over the records, in order.
RECURSIVE insert_or_update_forecast_data(_, _, _)
insert_or_update_forecast_data(store, forecast_data, t) ==
    IF forecast_data = <<>>
    THEN store
    ELSE insert_or_update_forecast_data(
             UpsertForecastRow(store, Head(forecast_data), t),
             Tail(forecast_data), t)

\* ORDER BY forecast_date ASC / DESC over rows of one station.
RECURSIVE OrderByDate(_, _)
OrderByDate(rows, ascending) ==
    IF rows = {}
    THEN <<>>
    ELSE LET first == CHOOSE r \in rows : \A q \in rows :
                          IF ascending
                          THEN r.forecast_date <= q.forecast_date
                          ELSE r.forecast_date >= q.forecast_date
         IN  <<first>> \o OrderByDate(rows \ {first}, ascending)

\* LIMIT ?
Limit(rows, n) == SubSeq(rows, 1, IF Len(rows) < n THEN Len(rows) ELSE n)

get_forecast_no_fallback_check(store, station_id, days, day) ==
    LET rows == Limit(OrderByDate({r \in store : r.station_id = station_id
                                                 /\ r.forecast_date >= day}, TRUE),
                      days)
    IN  IF rows = <<>>
        THEN Limit(OrderByDate({r \in store :
                                  /\ r.station_id = station_id
                                  /\ (r.flood_probability > 0
                                      \/ r.drought_probability > 0)}, FALSE),
                   days)
        ELSE rows

\* get_forecast_by_station
get_forecast_by_station(store, station_id, days, day) ==
    LET rows == Limit(OrderByDate({r \in store : r.station_id = station_id
                                                 /\ r.forecast_date >= day}, TRUE),
                      days)
        has_valid_risks ==
            \E i \in 1..Len(rows) :
                rows[i].flood_probability > 0 \/ rows[i].drought_probability > 0
    IN  IF rows = <<>> \/ ~has_valid_risks
        THEN Limit(OrderByDate({r \in store :
                                  /\ r.station_id = station_id
                                  /\ (r.flood_probability > 0
                                      \/ r.drought_probability > 0)}, FALSE),
                   days)
        ELSE rows

\* get_all_forecasts: the rows from today on of every station, or, when none
\* of them has a probability above 0, the rows with one, latest first;
\* grouped by station and cut to `days` rows each.
get_all_forecasts(store, days, day) ==
    LET upcoming == {r \in store : r.forecast_date >= day}
        has_valid_risks ==
            \E r \in upcoming : r.flood_probability > 0 \/ r.drought_probability > 0
        fallback == upcoming = {} \/ ~has_valid_risks
        rows == IF fallback
                THEN {r \in store : r.flood_probability > 0
                                    \/ r.drought_probability > 0}
                ELSE upcoming
        Of(station_id) == {r \in rows : r.station_id = station_id}
    IN  [station_id \in {s \in Stations : Of(s) # {}} |->
            Limit(OrderByDate(Of(station_id), ~fallback), days)]

ForecastIdle ==
    /\ fc_all = {}
    /\ weather_forecast = {}
    /\ today = FirstDay
    /\ fc_applied = [k \in ForecastKeys |-> {}]
    /\ fc_upserts = 0
    /\ fc_query = {}

\* The last record of the batch for each key it names.
RECURSIVE LastApplied(_, _)
LastApplied(hist, forecast_data) ==
    IF forecast_data = <<>>
    THEN hist
    ELSE LET rec == Head(forecast_data) IN
         LastApplied([hist EXCEPT ![<<rec.station_id, rec.forecast_date>>] = {rec}],
                     Tail(forecast_data))

\* A forecast refresh saves a batch of records (save_forecasts_to_db).
UpsertForecast(forecast_data, t) ==
    /\ fc_upserts + Len(forecast_data) <= MaxUpserts
    /\ weather_forecast' =
           insert_or_update_forecast_data(weather_forecast, forecast_data, t)
    /\ fc_applied' = LastApplied(fc_applied, forecast_data)
    /\ fc_upserts' = fc_upserts + Len(forecast_data)
    /\ now' = t
    /\ fc_query' = {}
    /\ fc_all' = {}
    /\ UNCHANGED <<active_alerts, calls, applied, last_call, ncalls, alert_errors, history,
                   today, obsVars, trainVars, mlVars, analysisVars, jobVars, decayVars,
                   fetchVars, listVars>>

\* A caller reads the forecast of one station.
GetForecast(station_id, days) ==
    /\ fc_query' = {[station_id |-> station_id, days |-> days,
                     rows |-> get_forecast_by_station(weather_forecast, station_id,
                                                      days, today)]}
    /\ UNCHANGED <<alertVars, weather_forecast, today, fc_applied, fc_upserts, obsVars,
                   trainVars, mlVars, analysisVars, jobVars, decayVars, fetchVars,
                   allVars, listVars>>

\* A caller reads the forecasts of all stations.
GetAllForecasts(days) ==
    /\ fc_all' = {[days |-> days,
                   forecasts |-> get_all_forecasts(weather_forecast, days, today)]}
    /\ UNCHANGED <<alertVars, forecastVars, obsVars, trainVars, mlVars,
                   analysisVars, jobVars, decayVars, fetchVars, listVars>>

\* Midnight passes.
NewDay ==
    /\ today = FirstDay
    /\ today' = today + 1
    /\ fc_query' = {}
    /\ fc_all' = {}
    /\ UNCHANGED <<alertVars, weather_forecast, fc_applied, fc_upserts, obsVars,
                   trainVars, mlVars, analysisVars, jobVars, decayVars, fetchVars,
                   listVars>>

\* ------------------------------------------------------- observation store
MaxInserts == 3

\* A timestamp is <<day, hour, minute>>; days are numbered like forecast dates.
Timestamp(day, hour, minute) == <<day, hour, minute>>

\* timestamp.strftime('%Y-%m-%d') and timestamp.hour
DateOf(timestamp) == timestamp[1]
HourOf(timestamp) == timestamp[2]

\* The measurement columns a training sample reads, in tenths of their unit;
\* {} is NULL.  The other
\* measurement columns (feels_like, wind_direction, ... icon) are written the
\* same way and read by nothing modelled here.
Measurements ==
    {[temperature |-> {280}, humidity |-> {800}, precipitation_total |-> {120},
      wind_speed |-> {100}, pressure |-> {10090}],
     [temperature |-> {310}, humidity |-> {450}, precipitation_total |-> {0},
      wind_speed |-> {50}, pressure |-> {10160}],
     [temperature |-> {}, humidity |-> {800}, precipitation_total |-> {120},
      wind_speed |-> {100}, pressure |-> {10090}]}

WeatherRecords(timestamps, measurements) ==
    [station_id : Stations, timestamp : timestamps, m : measurements]

SelectWeather(store, station_id, date, hour) ==
    {r \in store : r.station_id = station_id /\ r.date = date /\ r.hour = hour}

NewWeatherRow(data, t) ==
    [station_id |-> data.station_id, date |-> DateOf(data.timestamp),
     hour |-> HourOf(data.timestamp), timestamp |-> data.timestamp, m |-> data.m,
     created_at |-> t, updated_at |-> t]

UpsertWeatherRowReplace(store, data, t) ==
    (store \ SelectWeather(store, data.station_id, DateOf(data.timestamp),
                           HourOf(data.timestamp)))
        \cup {NewWeatherRow(data, t)}

\* INSERT INTO weather_hourly ... ON CONFLICT(station_id, date, hour) DO UPDATE
\* SET timestamp, the measurement columns, updated_at: created_at is kept.
UpsertWeatherRow(store, data, t) ==
    LET old == SelectWeather(store, data.station_id, DateOf(data.timestamp),
                             HourOf(data.timestamp))
    IN  IF old # {}
        THEN (store \ old) \cup
               {[r EXCEPT !.timestamp = data.timestamp, !.m = data.m,
                          !.updated_at = t] : r \in old}
        ELSE store \cup {NewWeatherRow(data, t)}

\* insert_or_update_weather_data: the loop over the records, in order.
RECURSIVE insert_or_update_weather_data(_, _, _)
insert_or_update_weather_data(store, weather_data, t) ==
    IF weather_data = <<>>
    THEN store
    ELSE insert_or_update_weather_data(
             UpsertWeatherRow(store, Head(weather_data), t), Tail(weather_data), t)

\* cleanup_old_data: DELETE FROM weather_hourly WHERE date < cutoff_date.
cleanup_old_data(store, day, days_to_keep) ==
    {r \in store : ~(r.date < day - days_to_keep)}

ObsDays == {FirstDay - 1, FirstDay}
ObsKeys == Stations \X ObsDays \X (0..23)

ObsIdle ==
    /\ weather_hourly = {}
    /\ obs_applied = [k \in ObsKeys |-> {}]
    /\ obs_inserts = 0
    /\ obs_cleaned = FALSE

\* The first and the last insert of each key the batch names.
RECURSIVE ObsApplied(_, _, _)
ObsApplied(hist, weather_data, t) ==
    IF weather_data = <<>>
    THEN hist
    ELSE LET data == Head(weather_data)
             k == <<data.station_id, DateOf(data.timestamp), HourOf(data.timestamp)>>
             first == IF hist[k] = {} THEN t ELSE (CHOOSE h \in hist[k] : TRUE).first
         IN  ObsApplied([hist EXCEPT ![k] = {[first |-> first, last |-> t,
                                             data |-> data]}],
                        Tail(weather_data), t)

\* The hourly ingestion saves a batch of observations (save_to_database).
InsertWeather(weather_data, t) ==
    /\ obs_inserts + Len(weather_data) <= MaxInserts
    /\ weather_hourly' = insert_or_update_weather_data(weather_hourly, weather_data, t)
    /\ obs_applied' = ObsApplied(obs_applied, weather_data, t)
    /\ obs_inserts' = obs_inserts + Len(weather_data)
    /\ now' = t
    /\ training' = {}
    /\ train_outcome' = {}
    /\ analysis' = {}
    /\ listing' = {}
    /\ UNCHANGED <<active_alerts, calls, applied, last_call, ncalls, alert_errors,
                   history, forecastVars, obs_cleaned, incident_reports,
                   incident_seq, mlVars, jobVars, decayVars, fetchVars, allVars,
                   listings>>

\* Old observations are purged.
CleanupOldData(days_to_keep) ==
    /\ weather_hourly' = cleanup_old_data(weather_hourly, today, days_to_keep)
    /\ obs_cleaned' = TRUE
    /\ training' = {}
    /\ train_outcome' = {}
    /\ analysis' = {}
    /\ listing' = {}
    /\ UNCHANGED <<alertVars, forecastVars, obs_applied, obs_inserts,
                   incident_reports, incident_seq, mlVars, jobVars, decayVars,
                   fetchVars, allVars, listings>>

\* ------------------------------------------ incidents and training data
MaxIncidents == 2

Severities == {"low", "medium", "high"}
Statuses == {"active", "resolved", "dismissed"}

\* Where an incident is reported: at station 1 (8.960556, -82.424444), north
\* of it (9.36, -82.424444), and at (0, 0).
Locations == {"station1", "north", "origin"}

\* haversine_distance from a location to a station, in metres, as the formula
\* gives it for the coordinates above and the stations' in config.STATIONS.
haversine_distance(location, station_id) ==
    CASE location = "station1" /\ station_id = 1 -> 0
      [] location = "station1" /\ station_id = 2 -> 12081
      [] location = "north" /\ station_id = 1 -> 44416
      [] location = "north" /\ station_id = 2 -> 56372
      [] location = "origin" /\ station_id = 1 -> 9175519
      [] location = "origin" /\ station_id = 2 -> 9173321

MaxDistance == 50000

DistanceFactorPlateau(distance) ==
    CASE distance = 0 -> 1000000
      [] distance = 5000 -> 1000000
      [] distance = 10000 -> 778801
      [] distance = 12081 -> 694260
      [] distance = 15000 -> 569783
      [] distance = 20000 -> 367879
      [] distance = 25000 -> 209611
      [] distance = 30000 -> 105399
      [] distance = 35000 -> 46771
      [] distance = 40000 -> 18316
      [] distance = 44416 -> 7212
      [] distance = 45000 -> 6330
      [] distance = 50000 -> 1930
      [] distance = 56372 -> 355
      [] OTHER -> 0

\* math.exp(-(distance / 20) ** 2), in millionths, for the distances above
\* and for every fifth kilometre up to 50.
DistanceFactor(distance) ==
    CASE distance = 0 -> 1000000
      [] distance = 5000 -> 939413
      [] distance = 10000 -> 778801
      [] distance = 12081 -> 694260
      [] distance = 15000 -> 569783
      [] distance = 20000 -> 367879
      [] distance = 25000 -> 209611
      [] distance = 30000 -> 105399
      [] distance = 35000 -> 46771
      [] distance = 40000 -> 18316
      [] distance = 44416 -> 7212
      [] distance = 45000 -> 6330
      [] distance = 50000 -> 1930
      [] distance = 56372 -> 355
      [] OTHER -> 0

\* severity_map.get(severity, 0.6), in hundredths.
BaseSeverity(severity) ==
    CASE severity = "low" -> 30
      [] severity = "medium" -> 60
      [] severity = "high" -> 90
      [] OTHER -> 60

\* Text comparison as SQLite does it.  Dates and ISO timestamps are written
\* with fields of fixed width, most significant first, so 'YYYY-MM-DD' is the
\* text <<day>> and 'YYYY-MM-DDTHH:MM:...' the text <<day, hour, minute>>: a
\* text that is a prefix of another is the smaller one.
DateText(day) == <<day>>
IsoText(timestamp) == timestamp

RECURSIVE TextLeq(_, _)
TextLeq(a, b) ==
    IF a = <<>> THEN TRUE
    ELSE IF b = <<>> THEN FALSE
    ELSE IF Head(a) # Head(b) THEN Head(a) < Head(b)
    ELSE TextLeq(Tail(a), Tail(b))

\* reported_at - timedelta(hours=1), reported_at + timedelta(hours=1)
AddHours(timestamp, n) ==
    LET h == timestamp[2] + n IN
    IF h < 0 THEN <<timestamp[1] - 1, h + 24, timestamp[3]>>
    ELSE IF h > 23 THEN <<timestamp[1] + 1, h - 24, timestamp[3]>>
    ELSE <<timestamp[1], h, timestamp[3]>>

\* ORDER BY date, hour over rows of one station.
RECURSIVE OrderByDateHour(_)
OrderByDateHour(rows) ==
    IF rows = {}
    THEN <<>>
    ELSE LET first == CHOOSE r \in rows : \A q \in rows :
                          \/ r.date < q.date
                          \/ r.date = q.date /\ r.hour <= q.hour
         IN  <<first>> \o OrderByDateHour(rows \ {first})

\* SELECT * FROM weather_hourly WHERE date BETWEEN ? AND ? AND station_id = ?
\* ORDER BY date, hour
get_data_by_date_range(store, start_date, end_date, station_id) ==
    OrderByDateHour({r \in store :
                        /\ TextLeq(start_date, DateText(r.date))
                        /\ TextLeq(DateText(r.date), end_date)
                        /\ r.station_id = station_id})

\* The stations within max_distance_km, nearest first (a stable sort of the
\* stations in catalog order).
RECURSIVE SortByDistance(_)
SortByDistance(nearby) ==
    IF nearby = {}
    THEN <<>>
    ELSE LET first == CHOOSE n \in nearby : \A q \in nearby :
                          \/ n[2] < q[2]
                          \/ n[2] = q[2] /\ n[1] <= q[1]
         IN  <<first>> \o SortByDistance(nearby \ {first})

find_nearby_stations(location, max_distance) ==
    SortByDistance({<<s, haversine_distance(location, s)>> : s \in
                       {s \in Stations : haversine_distance(location, s) <= max_distance}})

\* float(None) raises TypeError.
FloatFails(weather_record) ==
    \/ weather_record.m.temperature = {}
    \/ weather_record.m.humidity = {}
    \/ weather_record.m.precipitation_total = {}
    \/ weather_record.m.wind_speed = {}
    \/ weather_record.m.pressure = {}

\* The sample of one (incident, station); the five *_change features are the
\* constant 0.0.  Labels are in 10^-8.
Sample(incident, station_id, distance, weather_record) ==
    LET Value(x) == CHOOSE v \in x : TRUE
        adjusted_severity == BaseSeverity(incident.severity) * DistanceFactor(distance)
    IN  [temperature |-> Value(weather_record.m.temperature),
         humidity |-> Value(weather_record.m.humidity),
         precipitation_total |-> Value(weather_record.m.precipitation_total),
         wind_speed |-> Value(weather_record.m.wind_speed),
         pressure |-> Value(weather_record.m.pressure),
         flood_risk |-> IF incident.incident_type = "flood"
                        THEN adjusted_severity ELSE 0,
         drought_risk |-> IF incident.incident_type = "drought"
                          THEN adjusted_severity ELSE 0,
         incident_id |-> incident.id,
         station_id |-> station_id,
         distance |-> distance]

\* The loop over the nearby stations of one incident.  An exception leaves the
\* loop: the handler around the incident logs it and goes on to the next
\* incident, keeping the samples appended so far.
RECURSIVE StationSamples(_, _, _, _)
StationSamples(store, incident, nearby_stations, training_samples) ==
    IF nearby_stations = <<>>
    THEN training_samples
    ELSE LET station_id == Head(nearby_stations)[1]
             distance == Head(nearby_stations)[2]
             weather_data ==
                 get_data_by_date_range(store,
                                        IsoText(AddHours(incident.reported_at, -1)),
                                        IsoText(AddHours(incident.reported_at, 1)),
                                        station_id)
         IN  IF weather_data = <<>>
             THEN StationSamples(store, incident, Tail(nearby_stations),
                                 training_samples)
             ELSE IF FloatFails(weather_data[1])
             THEN training_samples
             ELSE StationSamples(store, incident, Tail(nearby_stations),
                                 Append(training_samples,
                                        Sample(incident, station_id, distance,
                                               weather_data[1])))

\* get_incident_training_data, given the list get_all_incident_reports returned.
RECURSIVE get_incident_training_data(_, _, _)
get_incident_training_data(store, incidents, training_samples) ==
    IF incidents = <<>>
    THEN training_samples
    ELSE get_incident_training_data(
             store, Tail(incidents),
             StationSamples(store, Head(incidents),
                            find_nearby_stations(Head(incidents).location, MaxDistance),
                            training_samples))

\* SELECT * FROM incident_reports ORDER BY reported_at DESC LIMIT 10000: the
\* lists the query may return (rows of equal reported_at come in any order).
RECURSIVE get_all_incident_reports(_)
get_all_incident_reports(reports) ==
    IF reports = {}
    THEN {<<>>}
    ELSE UNION {{<<r>> \o rest : rest \in get_all_incident_reports(reports \ {r})} :
                   r \in {r \in reports :
                              \A q \in reports :
                                  TextLeq(q.reported_at, r.reported_at)}}

\* insert_incident_report: one clock reading is reported_at, created_at and
\* updated_at; the id is the one after the highest the table ever gave out.
insert_incident_report(reports, incident_data, t, seq) ==
    reports \cup
        {[id |-> seq + 1,
          incident_type |-> incident_data.incident_type,
          severity |-> incident_data.severity,
          location |-> incident_data.location,
          reported_at |-> t, status |-> "active", resolved_at |-> {},
          created_at |-> t, updated_at |-> t]}

update_incident_status_keeps_resolved_at(reports, incident_id, status, t) ==
    {IF r.id # incident_id THEN r
     ELSE [r EXCEPT !.status = status, !.updated_at = t] : r \in reports}

\* update_incident_status: 'resolved' also sets resolved_at; the other
\* statuses leave it as it is.
update_incident_status(reports, incident_id, status, t) ==
    {IF r.id # incident_id THEN r
     ELSE IF status = "resolved"
     THEN [r EXCEPT !.status = status, !.resolved_at = {t}, !.updated_at = t]
     ELSE [r EXCEPT !.status = status, !.updated_at = t] : r \in reports}

\* RiskPredictor(): __init__ reads self.label_mapping, which no class defines.
RiskPredictorInit == [ok |-> FALSE, error |-> "AttributeError"]

\* prepare_training_data(days_back=days_back): the method has no such
\* parameter.
PrepareTrainingDataDaysBack == [ok |-> FALSE, error |-> "TypeError"]

\* get_combined_training_data(use_incidents=True)
get_combined_training_data(samples) ==
    IF Len(samples) > 0
    THEN [ok |-> TRUE, error |-> "", samples |-> samples]
    ELSE [ok |-> FALSE, error |-> RiskPredictorInit.error, samples |-> <<>>]

\* RiskPredictor.train on a constructed predictor: the data, the split (which
\* refuses to leave the training part empty), the two fits, save_model.
train(samples) ==
    LET data == get_combined_training_data(samples) IN
    IF ~data.ok
    THEN [result |-> PrepareTrainingDataDaysBack.error, flood_model |-> FALSE,
          drought_model |-> FALSE, saved |-> FALSE, data_source |-> ""]
    ELSE IF Len(data.samples) < 2
    THEN [result |-> "ValueError", flood_model |-> FALSE,
          drought_model |-> FALSE, saved |-> FALSE, data_source |-> ""]
    ELSE [result |-> "metrics", flood_model |-> TRUE, drought_model |-> TRUE,
          saved |-> TRUE, data_source |-> "real_incidents"]

\* train_model_from_history: RiskPredictor() and then train().
train_model_from_history(samples) ==
    IF ~RiskPredictorInit.ok
    THEN [result |-> RiskPredictorInit.error, flood_model |-> FALSE,
          drought_model |-> FALSE, saved |-> FALSE, data_source |-> ""]
    ELSE train(samples)

TrainingIdle ==
    /\ incident_reports = {}
    /\ incident_seq = 0
    /\ training = {}
    /\ train_outcome = {}

\* A user reports an incident.
InsertIncident(incident_data, t) ==
    /\ incident_seq < MaxIncidents
    /\ incident_reports' = insert_incident_report(incident_reports, incident_data, t,
                                                  incident_seq)
    /\ incident_seq' = incident_seq + 1
    /\ training' = {}
    /\ train_outcome' = {}
    /\ UNCHANGED <<alertVars, forecastVars, obsVars, mlVars, analysisVars, jobVars, decayVars,
                   fetchVars, allVars, listVars>>

\* An incident is resolved, dismissed or reopened.
UpdateIncidentStatus(incident_id, status, t) ==
    /\ incident_reports' = update_incident_status(incident_reports, incident_id,
                                                  status, t)
    /\ UNCHANGED incident_seq
    /\ training' = {}
    /\ train_outcome' = {}
    /\ UNCHANGED <<alertVars, forecastVars, obsVars, mlVars, analysisVars, jobVars, decayVars,
                   fetchVars, allVars, listVars>>

\* The training data are assembled from the incidents and the observations.
BuildTrainingData ==
    /\ \E incidents \in get_all_incident_reports(incident_reports) :
           training' = {[samples |-> get_incident_training_data(weather_hourly,
                                                                incidents, <<>>)]}
    /\ UNCHANGED <<alertVars, forecastVars, obsVars, incident_reports, incident_seq,
                   train_outcome, mlVars, analysisVars, jobVars, decayVars, fetchVars,
                   allVars, listVars>>

\* A retraining is requested.
TrainModelFromHistory ==
    /\ \E incidents \in get_all_incident_reports(incident_reports) :
           train_outcome' =
               {[incidents |-> Len(incidents)] @@
                train_model_from_history(
                    get_incident_training_data(weather_hourly, incidents, <<>>))}
    /\ UNCHANGED <<alertVars, forecastVars, obsVars, incident_reports, incident_seq,
                   training, mlVars, analysisVars, jobVars, decayVars, fetchVars,
                   allVars, listVars>>

\* ------------------------------------------- predictor and forecast refresh
MaxRefreshes == 2

\* Probabilities are in hundredths.  What the two regression models may
\* output for a feature vector.
RawOutputs == {-20, 0, 30, 49, 50, 70, 130}

Probabilities == {0, 29, 30, 49, 50, 69, 70, 100}

NoClamp(x) == x

\* max(0.0, min(1.0, x))
Clamp(x) == IF x < 0 THEN 0 ELSE IF x > 100 THEN 100 ELSE x

predict_zero_default(flood_model, drought_model, raw_flood, raw_drought) ==
    IF ~flood_model \/ ~drought_model
    THEN [error |-> {}, risks |-> {[flood_risk |-> 0, drought_risk |-> 0]}]
    ELSE [error |-> {},
          risks |-> {[flood_risk |-> Clamp(raw_flood),
                      drought_risk |-> Clamp(raw_drought)]}]

\* RiskPredictor.predict on a predictor whose models are present or None;
\* raw_flood and raw_drought are what the models output for the features.
predict(flood_model, drought_model, raw_flood, raw_drought) ==
    IF ~flood_model \/ ~drought_model
    THEN [error |-> {"ValueError"}, risks |-> {}]
    ELSE [error |-> {},
          risks |-> {[flood_risk |-> Clamp(raw_flood),
                      drought_risk |-> Clamp(raw_drought)]}]

\* RiskPredictor._get_risk_level_from_prob
get_risk_level_from_prob(probability) ==
    IF probability >= 70 THEN "RED"
    ELSE IF probability >= 50 THEN "YELLOW"
    ELSE "GREEN"

\* "RED" if prob >= 0.7 else ("YELLOW" if prob >= 0.3 else "GREEN"), the level
\* calculate_risks_for_forecasts gives a forecast.
ForecastLevel(prob) ==
    IF prob >= 70 THEN "RED"
    ELSE IF prob >= 30 THEN "YELLOW"
    ELSE "GREEN"

\* The six risk fields calculate_risks_for_forecasts sets from a prediction.
AssignRisks(risk_prediction) ==
    [flood_probability |-> risk_prediction.flood_risk,
     flood_level |-> ForecastLevel(risk_prediction.flood_risk),
     flood_alert |-> risk_prediction.flood_risk >= 30,
     drought_probability |-> risk_prediction.drought_risk,
     drought_level |-> ForecastLevel(risk_prediction.drought_risk),
     drought_alert |-> risk_prediction.drought_risk >= 30]

\* calculate_risks_for_forecasts: which scorer fills the risk fields, and the
\* fields.  With no model file the defaults are written; with one, the
\* predictor is constructed first, and a failure there is caught by the outer
\* handler, which writes the defaults too.
RiskScorer(artifact) ==
    IF ~artifact THEN "placeholder"
    ELSE IF ~RiskPredictorInit.ok THEN "placeholder"
    ELSE "model"

RiskFieldsFor(artifact, raw) ==
    IF RiskScorer(artifact) = "placeholder"
    THEN ZeroRisk
    ELSE LET out == predict(TRUE, TRUE, raw[1], raw[2]) IN
         IF out.error # {}
         THEN ZeroRisk
         ELSE AssignRisks(CHOOSE r \in out.risks : TRUE)

RECURSIVE calculate_risks_for_forecasts(_, _, _)
calculate_risks_for_forecasts(artifact, forecasts, raw) ==
    IF forecasts = <<>>
    THEN <<>>
    ELSE <<[Head(forecasts) EXCEPT !.risk = {RiskFieldsFor(artifact, raw)}]>>
             \o calculate_risks_for_forecasts(artifact, Tail(forecasts), raw)

\* fetch_all_forecasts: today's and tomorrow's record of every station the
\* source answered for, in catalog order, with no risk fields.
RECURSIVE fetch_all_forecasts(_, _, _, _)
fetch_all_forecasts(answered, weather, day, t) ==
    IF answered = {}
    THEN <<>>
    ELSE LET s == CHOOSE s \in answered : \A q \in answered : s <= q
             Rec(d) == [station_id |-> s, forecast_date |-> d, weather |-> weather,
                        risk |-> {}, retrieved_at |-> t]
         IN  <<Rec(day), Rec(day + 1)>>
                 \o fetch_all_forecasts(answered \ {s}, weather, day, t)

PredictorIdle ==
    /\ model_artifact = FALSE
    /\ fc_refresh = {}
    /\ refreshes = 0
    /\ prediction = {}
    /\ levels = {}

\* forecast_pipeline.run: fetch, calculate the risks, save.  With nothing
\* fetched the run ends before the other two steps.
RunForecastRefresh(answered, weather, raw, t) ==
    LET fetched == fetch_all_forecasts(answered, weather, today, t)
        forecasts == calculate_risks_for_forecasts(model_artifact, fetched, raw)
    IN  /\ refreshes < MaxRefreshes
        /\ refreshes' = refreshes + 1
        /\ weather_forecast' =
               insert_or_update_forecast_data(weather_forecast, forecasts, t)
        /\ fc_applied' = LastApplied(fc_applied, forecasts)
        /\ fc_upserts' = fc_upserts + Len(forecasts)
        /\ fc_refresh' = {[artifact |-> model_artifact,
                           scorer |-> IF forecasts = <<>> THEN "none"
                                      ELSE RiskScorer(model_artifact),
                           stored |-> {<<f.station_id, f.forecast_date>> :
                                           f \in {forecasts[n] : n \in 1..Len(forecasts)}},
                           result |-> forecasts # <<>>]}
        /\ now' = t
        /\ fc_query' = {}
        /\ fc_all' = {}
        /\ UNCHANGED <<active_alerts, calls, applied, last_call, ncalls,
                       alert_errors, history, today, obsVars, trainVars, model_artifact,
                       prediction, levels, analysisVars, jobVars, decayVars, fetchVars,
                   listVars>>

\* The model file is put in place, or removed.
SetModelArtifact(exists) ==
    /\ model_artifact # exists
    /\ model_artifact' = exists
    /\ UNCHANGED <<alertVars, forecastVars, obsVars, trainVars, fc_refresh,
                   refreshes, prediction, levels, analysisVars, jobVars, decayVars,
                   fetchVars, allVars, listVars>>

\* predict is called on a predictor.
Predict(flood_model, drought_model, raw_flood, raw_drought) ==
    /\ prediction' = {[flood_model |-> flood_model, drought_model |-> drought_model,
                       raw_flood |-> raw_flood, raw_drought |-> raw_drought,
                       out |-> predict(flood_model, drought_model, raw_flood,
                                       raw_drought)]}
    /\ UNCHANGED <<alertVars, forecastVars, obsVars, trainVars, model_artifact,
                   fc_refresh, refreshes, levels, analysisVars, jobVars, decayVars,
                   fetchVars, allVars, listVars>>

\* A level is derived from a probability, by the predictor and by the refresh.
DeriveLevels(probability) ==
    /\ levels' = {[probability |-> probability,
                   predictor |-> get_risk_level_from_prob(probability),
                   forecast |-> ForecastLevel(probability)]}
    /\ UNCHANGED <<alertVars, forecastVars, obsVars, trainVars, model_artifact,
                   fc_refresh, refreshes, prediction, analysisVars, jobVars, decayVars,
                   fetchVars, allVars, listVars>>

\* ------------------------------------------------------------ risk analyzer
Metrics == {"temperature", "humidity", "precipitation_total", "wind_speed",
            "pressure"}

\* RiskAnalyzer.THRESHOLDS, in tenths of the unit.
THRESHOLDS ==
    [temperature |-> [normal_max |-> 320, high |-> 350, critical |-> 380],
     humidity |-> [normal_min |-> 600, normal_max |-> 850, high |-> 900,
                   critical |-> 950],
     precipitation_total |-> [moderate |-> 50, high |-> 150, critical |-> 300],
     wind_speed |-> [moderate |-> 200, high |-> 400, critical |-> 600],
     pressure |-> [low_critical |-> 10050, low_warning |-> 10100,
                   normal_min |-> 10130, normal_max |-> 10200]]

\* ORDER BY date DESC, hour DESC over rows of one station.
RECURSIVE OrderByDateHourDesc(_)
OrderByDateHourDesc(rows) ==
    IF rows = {}
    THEN <<>>
    ELSE LET first == CHOOSE r \in rows : \A q \in rows :
                          \/ r.date > q.date
                          \/ r.date = q.date /\ r.hour >= q.hour
         IN  <<first>> \o OrderByDateHourDesc(rows \ {first})

get_latest_oldest_first(store, station_id, limit) ==
    Limit(OrderByDateHour({r \in store : r.station_id = station_id}), limit)

\* SELECT * FROM weather_hourly WHERE station_id = ?
\* ORDER BY date DESC, hour DESC LIMIT ?
get_latest_data_by_station(store, station_id, limit) ==
    Limit(OrderByDateHourDesc({r \in store : r.station_id = station_id}), limit)

\* [d.get(metric) for d in data if d.get(metric) is not None]
RECURSIVE ValuesOf(_, _)
ValuesOf(data, metric) ==
    IF data = <<>>
    THEN <<>>
    ELSE (IF Head(data).m[metric] = {}
          THEN <<>>
          ELSE <<CHOOSE v \in Head(data).m[metric] : TRUE>>)
             \o ValuesOf(Tail(data), metric)

RECURSIVE SumOf(_)
SumOf(values) == IF values = <<>> THEN 0 ELSE Head(values) + SumOf(Tail(values))

\* _calculate_averages: per metric sum(values) / len(values), kept as the pair
\* <<sum, len>>; a metric with no value is absent.
calculate_averages(data) ==
    [metric \in Metrics |->
        LET values == ValuesOf(data, metric) IN
        IF values = <<>> THEN {} ELSE {<<SumOf(values), Len(values)>>}]

\* _analyze_temperature: the absolute thresholds, then `diff > 5` against the
\* historical average when that is neither absent nor 0.
analyze_temperature(current, historical_avg) ==
    IF current = {}
    THEN {}
    ELSE LET c == CHOOSE v \in current : TRUE
             t == THRESHOLDS.temperature
             score == IF c >= t.critical THEN 90
                      ELSE IF c >= t.high THEN 70
                      ELSE IF c >= t.normal_max THEN 40
                      ELSE 0
             above == \E a \in historical_avg :
                          a[1] # 0 /\ c * a[2] - a[1] > 50 * a[2]
         IN  {[metric |-> "temperature",
               score |-> IF above /\ score < 50 THEN 50 ELSE score,
               severity |-> IF c >= t.critical THEN "critical"
                            ELSE IF c >= t.high THEN "high"
                            ELSE IF c >= t.normal_max THEN "moderate"
                            ELSE "normal"]}

analyze_humidity(current, historical_avg) ==
    IF current = {}
    THEN {}
    ELSE LET c == CHOOSE v \in current : TRUE
             t == THRESHOLDS.humidity
         IN  {IF c >= t.critical
              THEN [metric |-> "humidity", score |-> 80, severity |-> "critical"]
              ELSE IF c >= t.high
              THEN [metric |-> "humidity", score |-> 60, severity |-> "high"]
              ELSE IF c < t.normal_min
              THEN [metric |-> "humidity", score |-> 30, severity |-> "moderate"]
              ELSE [metric |-> "humidity", score |-> 0, severity |-> "normal"]}

analyze_precipitation(current, historical_avg) ==
    IF current = {}
    THEN {}
    ELSE LET c == CHOOSE v \in current : TRUE
             t == THRESHOLDS.precipitation_total
         IN  {IF c >= t.critical
              THEN [metric |-> "precipitation", score |-> 95, severity |-> "critical"]
              ELSE IF c >= t.high
              THEN [metric |-> "precipitation", score |-> 75, severity |-> "high"]
              ELSE IF c >= t.moderate
              THEN [metric |-> "precipitation", score |-> 50, severity |-> "moderate"]
              ELSE IF c > 0
              THEN [metric |-> "precipitation", score |-> 20, severity |-> "low"]
              ELSE [metric |-> "precipitation", score |-> 0, severity |-> "normal"]}

analyze_wind(current, historical_avg) ==
    IF current = {}
    THEN {}
    ELSE LET c == CHOOSE v \in current : TRUE
             t == THRESHOLDS.wind_speed
         IN  {IF c >= t.critical
              THEN [metric |-> "wind", score |-> 85, severity |-> "critical"]
              ELSE IF c >= t.high
              THEN [metric |-> "wind", score |-> 65, severity |-> "high"]
              ELSE IF c >= t.moderate
              THEN [metric |-> "wind", score |-> 40, severity |-> "moderate"]
              ELSE [metric |-> "wind", score |-> 0, severity |-> "normal"]}

analyze_pressure(current, historical_avg) ==
    IF current = {}
    THEN {}
    ELSE LET c == CHOOSE v \in current : TRUE
             t == THRESHOLDS.pressure
         IN  {IF c <= t.low_critical
              THEN [metric |-> "pressure", score |-> 80, severity |-> "critical"]
              ELSE IF c <= t.low_warning
              THEN [metric |-> "pressure", score |-> 55, severity |-> "high"]
              ELSE IF c < t.normal_min
              THEN [metric |-> "pressure", score |-> 30, severity |-> "moderate"]
              ELSE [metric |-> "pressure", score |-> 0, severity |-> "normal"]}

\* change > 0.5 or change < -0.5 is a trend; change is in tenths.
TrendOfInclusive(change) ==
    IF change >= 5 THEN "subiendo"
    ELSE IF change <= -5 THEN "bajando"
    ELSE "estable"

TrendOf(change) ==
    IF change > 5 THEN "subiendo"
    ELSE IF change < -5 THEN "bajando"
    ELSE "estable"

\* _calculate_trends: nothing with fewer than three records; otherwise, per
\* metric, the values that are not None among the first three records, and
\* with two or more of them the first minus the last.
calculate_trends(historical_data) ==
    [metric \in Metrics |->
        IF Len(historical_data) < 3
        THEN {}
        ELSE LET recent == ValuesOf(SubSeq(historical_data, 1, 3), metric) IN
             IF Len(recent) >= 2
             THEN {[trend |-> TrendOf(recent[1] - recent[Len(recent)]),
                    change |-> recent[1] - recent[Len(recent)],
                    recent_values |-> recent]}
             ELSE {}]

\* _calculate_risk_level
calculate_risk_level(score) ==
    IF score >= 80 THEN "critico"
    ELSE IF score >= 60 THEN "alto"
    ELSE IF score >= 30 THEN "moderado"
    ELSE "bajo"

RECURSIVE OverallScoreSum(_)
OverallScoreSum(factors) ==
    IF factors = {}
    THEN 0
    ELSE LET f == CHOOSE f \in factors : TRUE IN
         f.score + OverallScoreSum(factors \ {f})

\* max(risk_scores) if risk_scores else 0
OverallScore(factors) ==
    IF factors = {}
    THEN 0
    ELSE LET top == CHOOSE f \in factors : \A g \in factors : f.score >= g.score
         IN  top.score

\* analyze_station_risk on an analyzer whose get_latest is
\* get_latest_data_by_station; {} is None.  The recommendations, texts made
\* from the level, the factors and the trends, are left out.
analyze_station_risk(store, station_id, hours_to_compare) ==
    LET historical_data == get_latest_data_by_station(store, station_id,
                                                      hours_to_compare)
    IN  IF historical_data = <<>>
        THEN {}
        ELSE LET current == historical_data[1]
                 historical_avg == calculate_averages(Tail(historical_data))
                 factors ==
                     analyze_temperature(current.m.temperature,
                                         historical_avg.temperature)
                     \cup analyze_humidity(current.m.humidity,
                                           historical_avg.humidity)
                     \cup analyze_precipitation(current.m.precipitation_total,
                                                historical_avg.precipitation_total)
                     \cup analyze_wind(current.m.wind_speed,
                                       historical_avg.wind_speed)
                     \cup analyze_pressure(current.m.pressure,
                                           historical_avg.pressure)
                 overall_score == OverallScore(factors)
             IN  {[station_id |-> station_id,
                   timestamp |-> current.timestamp,
                   risk_level |-> calculate_risk_level(overall_score),
                   risk_score |-> overall_score,
                   factors |-> factors,
                   trends |-> calculate_trends(historical_data),
                   current_metrics |-> current.m,
                   historical_avg |-> historical_avg]}

AnalysisIdle == analysis = {}

\* The risk of a station is analyzed.
AnalyzeStationRisk(station_id, hours_to_compare) ==
    /\ analysis' = {[station_id |-> station_id, hours |-> hours_to_compare,
                     result |-> analyze_station_risk(weather_hourly, station_id,
                                                     hours_to_compare)]}
    /\ UNCHANGED <<alertVars, forecastVars, obsVars, trainVars, mlVars, jobVars, decayVars,
                   fetchVars, allVars, listVars>>

\* ------------------------------------------------- jobs and incidents API
MaxRunning == 3
MaxSubmissions == 5

Jobs == {"meteosource_pipeline", "forecast_pipeline", "model_training"}

\* add_job(..., max_instances=1): the scheduler skips a run of a job that is
\* due while this many instances of it are in its executor.
max_instances == 1

\* len(X) >= 10
RetrainMinimum == 10

Started(running, job) == [running EXCEPT ![job] = @ + 1]

Ended(running, job) == [running EXCEPT ![job] = @ - 1]

JobsIdle ==
    /\ scheduler_instances = [job \in Jobs |-> 0]
    /\ job_running = [job \in Jobs |-> 0]
    /\ retrain_threads = 0
    /\ retrain_log = {}
    /\ incident_api = {}

JobsUntouched ==
    UNCHANGED <<alertVars, forecastVars, obsVars, trainVars, mlVars, analysisVars,
                retrain_threads, retrain_log, incident_api, decayVars, fetchVars,
                   allVars, listVars>>

\* A cron trigger of the scheduler is due.  run_meteosource_pipeline and
\* run_model_training run in the executor until they return;
\* run_forecast_pipeline starts a ForecastPipeline thread and returns at once.
SchedulerFires(job) ==
    /\ scheduler_instances[job] < max_instances
    /\ job_running[job] < MaxRunning
    /\ job_running' = Started(job_running, job)
    /\ scheduler_instances' =
           IF job = "forecast_pipeline"
           THEN scheduler_instances
           ELSE Started(scheduler_instances, job)
    /\ JobsUntouched

\* A run in the executor returns.
JobReturns(job) ==
    /\ scheduler_instances[job] > 0
    /\ scheduler_instances' = Ended(scheduler_instances, job)
    /\ job_running' = Ended(job_running, job)
    /\ JobsUntouched

\* execute_forecast_now, called by lifespan at start-up: run_forecast_pipeline.
ExecuteForecastNow ==
    /\ job_running["forecast_pipeline"] < MaxRunning
    /\ job_running' = Started(job_running, "forecast_pipeline")
    /\ UNCHANGED scheduler_instances
    /\ JobsUntouched

\* run_forecast_pipeline_background, the task the forecast endpoints add when
\* they find no forecasts: the pipeline in a subprocess.
RunForecastPipelineBackground ==
    /\ job_running["forecast_pipeline"] < MaxRunning
    /\ job_running' = Started(job_running, "forecast_pipeline")
    /\ UNCHANGED scheduler_instances
    /\ JobsUntouched

\* execute_pipeline_now: run_meteosource_pipeline in the caller's thread.
ExecutePipelineNow ==
    /\ job_running["meteosource_pipeline"] < MaxRunning
    /\ job_running' = Started(job_running, "meteosource_pipeline")
    /\ UNCHANGED scheduler_instances
    /\ JobsUntouched

\* execute_training_now: run_model_training in the caller's thread.
ExecuteTrainingNow ==
    /\ job_running["model_training"] < MaxRunning
    /\ job_running' = Started(job_running, "model_training")
    /\ UNCHANGED scheduler_instances
    /\ JobsUntouched

\* A run that is not in the executor ends: a ForecastPipeline thread, a
\* subprocess, a manual run, the training of a ModelRetraining thread.
RunEnds(job) ==
    /\ job_running[job] > scheduler_instances[job]
    /\ job_running' = Ended(job_running, job)
    /\ UNCHANGED scheduler_instances
    /\ JobsUntouched

\* DELETE FROM incident_reports WHERE id = ?
delete_incident(reports, incident_id) == {r \in reports : r.id # incident_id}

ApiAnswer(op, id, status, t, code, before, after) ==
    [op |-> op, id |-> id, status |-> status, t |-> t, code |-> code,
     before |-> before, after |-> after]

\* POST /incidents: the two validations, the insert, the ModelRetraining
\* thread, the answer.
CreateIncidentReport(report, t) ==
    IF \/ report.incident_type \notin {"flood", "drought"}
       \/ report.severity \notin {"low", "medium", "high"}
    THEN /\ incident_api' = {ApiAnswer("create", 0, "", t, 400, incident_reports,
                                       incident_reports)}
         /\ UNCHANGED <<alertVars, forecastVars, obsVars, trainVars, mlVars,
                        analysisVars, scheduler_instances, job_running,
                        retrain_threads, retrain_log, decayVars, fetchVars, allVars,
                       listVars>>
    ELSE /\ incident_seq < MaxSubmissions
         /\ incident_reports' = insert_incident_report(incident_reports, report, t,
                                                       incident_seq)
         /\ incident_seq' = incident_seq + 1
         /\ training' = {}
         /\ train_outcome' = {}
         /\ retrain_threads' = retrain_threads + 1
         /\ incident_api' = {ApiAnswer("create", incident_seq + 1, "", t, 200,
                                       incident_reports, incident_reports')}
         /\ UNCHANGED <<alertVars, forecastVars, obsVars, mlVars, analysisVars,
                        scheduler_instances, job_running, retrain_log, decayVars,
                   fetchVars, allVars, listVars>>

\* retrain_model, the body of a ModelRetraining thread: the training data of
\* the incidents there are by now, and train_model_from_history when they
\* are at least ten samples; whatever is raised is logged as a warning.
RetrainModel ==
    /\ retrain_threads > 0
    /\ retrain_threads' = retrain_threads - 1
    /\ \E incidents \in get_all_incident_reports(incident_reports) :
           LET X == get_incident_training_data(weather_hourly, incidents, <<>>) IN
           IF Len(X) >= RetrainMinimum
           THEN /\ job_running["model_training"] < MaxRunning
                /\ job_running' = Started(job_running, "model_training")
                /\ retrain_log' =
                       {[incidents |-> Len(incidents), samples |-> Len(X),
                         retrain |-> TRUE,
                         warning |-> {train_model_from_history(X).result}
                                         \ {"metrics"}]}
           ELSE /\ retrain_log' =
                       {[incidents |-> Len(incidents), samples |-> Len(X),
                         retrain |-> FALSE, warning |-> {}]}
                /\ UNCHANGED job_running
    /\ UNCHANGED <<alertVars, forecastVars, obsVars, trainVars, mlVars,
                   analysisVars, scheduler_instances, incident_api, decayVars,
                   fetchVars, allVars, listVars>>

\* PATCH /incidents/{incident_id}
UpdateIncidentReport(incident_id, status, t) ==
    LET code == IF status \notin Statuses THEN 400
                ELSE IF \E r \in incident_reports : r.id = incident_id THEN 200
                ELSE 404
        after == IF code = 400
                 THEN incident_reports
                 ELSE update_incident_status(incident_reports, incident_id,
                                             status, t)
    IN  /\ incident_reports' = after
        /\ training' = {}
        /\ train_outcome' = {}
        /\ incident_api' = {ApiAnswer("update", incident_id, status, t, code,
                                      incident_reports, after)}
        /\ UNCHANGED <<alertVars, forecastVars, obsVars, incident_seq, mlVars,
                       analysisVars, scheduler_instances, job_running,
                       retrain_threads, retrain_log, decayVars, fetchVars, allVars,
                       listVars>>

\* DELETE /incidents/{incident_id}
DeleteIncidentReport(incident_id, t) ==
    LET after == delete_incident(incident_reports, incident_id)
        code == IF after # incident_reports THEN 200 ELSE 404
    IN  /\ incident_reports' = after
        /\ training' = {}
        /\ train_outcome' = {}
        /\ incident_api' = {ApiAnswer("delete", incident_id, "", t, code,
                                      incident_reports, after)}
        /\ UNCHANGED <<alertVars, forecastVars, obsVars, incident_seq, mlVars,
                       analysisVars, scheduler_instances, job_running,
                       retrain_threads, retrain_log, decayVars, fetchVars, allVars,
                       listVars>>

\* -------------------------------------------------- fetch of the forecasts
\* The catalog the fetch goes through, in order.
FetchStations == <<1, 2, 3, 4, 5, 6, 7>>

\* consecutive_failures >= 10
FailureLimit == 10

max_consecutive_errors == 5

\* get_api_state with no file: no success, no attempt, no failure.  The field
\* failed_today is not in the file: it counts the failed calls recorded since
\* the last success on the day last_attempt_date names.
FetchIdle ==
    /\ api_state = [last_success |-> {}, consecutive_failures |-> 0,
                    last_attempt_date |-> {}, failed_today |-> 0]
    /\ fetch_run = {}

\* should_attempt_api: a day other than the last attempt's, or fewer than ten
\* failures in the file.
should_attempt_api(state, day) ==
    IF state.last_attempt_date # {day}
    THEN TRUE
    ELSE IF state.consecutive_failures >= FailureLimit
    THEN FALSE
    ELSE TRUE

\* record_api_result
record_api_result(state, success, day) ==
    IF success
    THEN [state EXCEPT !.last_success = {day}, !.consecutive_failures = 0,
                       !.last_attempt_date = {day}, !.failed_today = 0]
    ELSE [state EXCEPT !.consecutive_failures = @ + 1,
                       !.last_attempt_date = {day},
                       !.failed_today = IF state.last_attempt_date = {day}
                                        THEN @ + 1 ELSE 1]

\* generate_simulated_forecast for every station, today and tomorrow.
RECURSIVE SimulatedForecasts(_, _)
SimulatedForecasts(stations, day) ==
    IF stations = <<>>
    THEN <<>>
    ELSE <<[station_id |-> Head(stations), forecast_date |-> day,
            source |-> "simulated"],
           [station_id |-> Head(stations), forecast_date |-> day + 1,
            source |-> "simulated"]>>
             \o SimulatedForecasts(Tail(stations), day)

RECURSIVE FetchLoopNoReset(_, _, _, _, _)
FetchLoopNoReset(stations, answers, consecutive_errors, run, day) ==
    IF stations = <<>>
    THEN run
    ELSE LET station == Head(stations)
             called == [run EXCEPT !.called = Append(@, station)]
         IN  IF answers[station]
             THEN FetchLoopNoReset(
                      Tail(stations), answers, consecutive_errors,
                      [called EXCEPT
                           !.state = record_api_result(@, TRUE, day),
                           !.forecasts = @ \o
                               <<[station_id |-> station, forecast_date |-> day,
                                  source |-> "api"],
                                 [station_id |-> station, forecast_date |-> day + 1,
                                  source |-> "api"]>>],
                      day)
             ELSE LET failed == [called EXCEPT
                                     !.state = record_api_result(@, FALSE, day)]
                  IN  IF consecutive_errors + 1 >= max_consecutive_errors
                      THEN [failed EXCEPT
                                !.limit = TRUE,
                                !.forecasts = @ \o SimulatedForecasts(FetchStations, day)]
                      ELSE FetchLoopNoReset(Tail(stations), answers,
                                            consecutive_errors + 1, failed, day)

\* The loop of fetch_all_forecasts over STATIONS: a station that answers adds
\* its two records and resets consecutive_errors; the fifth failure in a row
\* adds the simulated records of every station and leaves the loop.
RECURSIVE FetchLoop(_, _, _, _, _)
FetchLoop(stations, answers, consecutive_errors, run, day) ==
    IF stations = <<>>
    THEN run
    ELSE LET station == Head(stations)
             called == [run EXCEPT !.called = Append(@, station)]
         IN  IF answers[station]
             THEN FetchLoop(
                      Tail(stations), answers, 0,
                      [called EXCEPT
                           !.state = record_api_result(@, TRUE, day),
                           !.forecasts = @ \o
                               <<[station_id |-> station, forecast_date |-> day,
                                  source |-> "api"],
                                 [station_id |-> station, forecast_date |-> day + 1,
                                  source |-> "api"]>>],
                      day)
             ELSE LET failed == [called EXCEPT
                                     !.state = record_api_result(@, FALSE, day)]
                  IN  IF consecutive_errors + 1 >= max_consecutive_errors
                      THEN [failed EXCEPT
                                !.limit = TRUE,
                                !.forecasts = @ \o SimulatedForecasts(FetchStations, day)]
                      ELSE FetchLoop(Tail(stations), answers,
                                     consecutive_errors + 1, failed, day)

\* fetch_all_forecasts: only simulated records when should_attempt_api says
\* no, the loop otherwise.
FetchRun(state, answers, day) ==
    LET start == [state |-> state, called |-> <<>>, forecasts |-> <<>>,
                  limit |-> FALSE, attempted |-> TRUE]
    IN  IF ~should_attempt_api(state, day)
        THEN [start EXCEPT !.attempted = FALSE,
                           !.forecasts = SimulatedForecasts(FetchStations, day)]
        ELSE FetchLoop(FetchStations, answers, 0, start, day)

\* One run of fetch_all_forecasts; answers says for which stations the API
\* would return a forecast.
FetchAllForecasts(answers) ==
    LET run == FetchRun(api_state, answers, today) IN
    /\ api_state' = run.state
    /\ fetch_run' = {[before |-> api_state, answers |-> answers, day |-> today,
                      attempted |-> run.attempted, called |-> run.called,
                      limit |-> run.limit, forecasts |-> run.forecasts]}
    /\ UNCHANGED <<alertVars, forecastVars, obsVars, trainVars, mlVars,
                   analysisVars, jobVars, decayVars, allVars, listVars>>

\* ---------------------------------------------------------- spatial decay
DecayIdle == decay = {}

\* The samples get_incident_training_data builds for two stations at the
\* given distances from one incident, with the same observation.
CorrelateStations(incident_type, severity, d1, d2, m) ==
    LET incident == [id |-> 1, incident_type |-> incident_type,
                     severity |-> severity]
        weather_record == [m |-> m]
    IN  /\ decay' = {[incident_type |-> incident_type, d1 |-> d1, d2 |-> d2,
                      factor1 |-> DistanceFactor(d1),
                      factor2 |-> DistanceFactor(d2),
                      sample1 |-> Sample(incident, 1, d1, weather_record),
                      sample2 |-> Sample(incident, 2, d2, weather_record)]}
        /\ UNCHANGED <<alertVars, forecastVars, obsVars, trainVars, mlVars,
                       analysisVars, jobVars, fetchVars, allVars, listVars>>

\* ------------------------------------------------- the station listing
MaxListings == 2

\* config.STATIONS, in catalog order.
Catalog == <<1, 2>>

\* config.RISK_LEVELS, in hundredths.
RISK_LEVELS == [GREEN |-> <<0, 30>>, YELLOW |-> <<30, 80>>, RED |-> <<80, 100>>]

get_risk_level_wide_green(probability) ==
    IF probability < 60 THEN "GREEN"
    ELSE IF probability < RISK_LEVELS.YELLOW[2] THEN "YELLOW"
    ELSE "RED"

\* Predictor._get_risk_level
get_risk_level(probability) ==
    IF probability < RISK_LEVELS.GREEN[2] THEN "GREEN"
    ELSE IF probability < RISK_LEVELS.YELLOW[2] THEN "YELLOW"
    ELSE "RED"

\* MAX(date || ' ' || printf('%02d', hour)): dates, then hours, compare as text.
DateHourLeq(q, r) == q.date < r.date \/ (q.date = r.date /\ q.hour <= r.hour)

\* The row of each station with the greatest date and hour among `rows`.
LatestPerStation(rows) ==
    {r \in rows : \A q \in rows : q.station_id = r.station_id => DateHourLeq(q, r)}

\* get_all_stations_latest: the latest row of each station among the rows with
\* humidity IS NOT NULL AND humidity > 0; when that gives no row at all, the
\* latest row of each station with no filter.
get_all_stations_latest(store) ==
    LET rows == LatestPerStation(
                    {r \in store : r.m.humidity # {} /\ \A h \in r.m.humidity : h > 0})
    IN  IF rows # {} THEN rows ELSE LatestPerStation(store)

\* get_all_alerts_by_station: SELECT * FROM active_alerts, grouped by key.
get_all_alerts_by_station(store) ==
    [k \in {<<r.station_id, r.alert_type>> : r \in store} |->
        CHOOSE r \in store : r.station_id = k[1] /\ r.alert_type = k[2]]

\* station_data.get(column) or 0.0
OrZero(x) == IF x = {} THEN 0 ELSE CHOOSE v \in x : TRUE

ListingThreshold == 50
ProbabilityCap == 95

\* min(0.95, (rainfall / 50.0) * 0.6 + (humidity / 100.0) * 0.4), in hundredths;
\* rainfall and humidity are in tenths and, in the observations listed here,
\* multiples of 2.5, which makes the division exact.
flood_prob(rainfall, humidity) ==
    LET x == (12 * rainfall + 4 * humidity) \div 100
    IN  IF x < ProbabilityCap THEN x ELSE ProbabilityCap

\* min(0.95, (1 - rainfall / 50.0) * 0.6 + (1 - humidity / 100.0) * 0.4)
drought_prob(rainfall, humidity) ==
    LET x == (12 * (500 - rainfall) + 4 * (1000 - humidity)) \div 100
    IN  IF x < ProbabilityCap THEN x ELSE ProbabilityCap

\* The flood_risk and drought_risk entries of a station with data.
StationRisk(station_data) ==
    LET rainfall == OrZero(station_data.m.precipitation_total)
        humidity == OrZero(station_data.m.humidity)
        flood == flood_prob(rainfall, humidity)
        drought == drought_prob(rainfall, humidity)
    IN  [flood |-> [probability |-> flood, level |-> get_risk_level(flood),
                    alert |-> flood >= ListingThreshold],
         drought |-> [probability |-> drought, level |-> get_risk_level(drought),
                      alert |-> drought >= ListingThreshold]]

\* The entries of a station with no data ("Estación sin datos").
NoDataRisk ==
    [flood |-> [probability |-> 0, level |-> "GREEN", alert |-> FALSE],
     drought |-> [probability |-> 0, level |-> "GREEN", alert |-> FALSE]]

\* The `data` list of the response, by station id.
ListingData(all_stations_data) ==
    [s \in Stations |->
        IF \E r \in all_stations_data : r.station_id = s
        THEN StationRisk(CHOOSE r \in all_stations_data : r.station_id = s)
        ELSE NoDataRisk]

\* alerts_to_upsert and alerts_to_remove as the loop over STATIONS fills them:
\* a station with no data adds to neither list.
RECURSIVE AlertOperations(_, _, _)
AlertOperations(stations, all_stations_data, upsert) ==
    IF stations = <<>> THEN <<>>
    ELSE LET s == Head(stations)
             risk == ListingData(all_stations_data)[s]
             Op(h) == IF (risk[h].probability >= ListingThreshold) = upsert
                      THEN <<[station_id |-> s, alert_type |-> h,
                              risk_level |-> risk[h].level,
                              probability |-> risk[h].probability]>>
                      ELSE <<>>
         IN  (IF \E r \in all_stations_data : r.station_id = s
              THEN Op("flood") \o Op("drought") ELSE <<>>)
             \o AlertOperations(Tail(stations), all_stations_data, upsert)

\* for ... in alerts_to_upsert: _manage_alert(...)
RECURSIVE RunUpserts(_, _, _)
RunUpserts(store, ops, t) ==
    IF ops = <<>> THEN store
    ELSE LET o == Head(ops) IN
         RunUpserts(manage_alert(store, o.station_id, o.alert_type, o.probability,
                                 o.risk_level, t), Tail(ops), t)

\* for ... in alerts_to_remove: remove_alert(...) if all_alerts has the key.
RECURSIVE RunRemoves(_, _, _)
RunRemoves(store, ops, all_alerts) ==
    IF ops = <<>> THEN store
    ELSE LET o == Head(ops) IN
         RunRemoves(IF <<o.station_id, o.alert_type>> \in DOMAIN all_alerts
                    THEN remove_alert(store, o.station_id, o.alert_type)
                    ELSE store,
                    Tail(ops), all_alerts)

\* The alert table after one list_all_stations pass: untouched when the
\* database has no observation at all (the early return).
list_all_stations(alerts, observations, t) ==
    LET all_stations_data == get_all_stations_latest(observations)
        all_alerts == get_all_alerts_by_station(alerts)
    IN  IF all_stations_data = {} THEN alerts
        ELSE RunRemoves(RunUpserts(alerts,
                                   AlertOperations(Catalog, all_stations_data, TRUE), t),
                        AlertOperations(Catalog, all_stations_data, FALSE),
                        all_alerts)

ListingIdle ==
    /\ listing = {}
    /\ listings = 0

\* GET /stations, from the first query to the response, with no other writer.
ListAllStations(t) ==
    /\ listings < MaxListings
    /\ active_alerts' = list_all_stations(active_alerts, weather_hourly, t)
    /\ listing' = {ListingData(get_all_stations_latest(weather_hourly))}
    /\ listings' = listings + 1
    /\ now' = t
    /\ UNCHANGED <<calls, applied, last_call, ncalls, alert_errors, history,
                   forecastVars, obsVars, trainVars, mlVars, analysisVars, jobVars,
                   decayVars, fetchVars, allVars>>

\* --------------------------------------------------------- specifications
\* Everything empty, as init_database leaves a new database.
Init == AlertsIdle /\ ForecastIdle /\ ObsIdle /\ TrainingIdle /\ PredictorIdle
        /\ AnalysisIdle /\ JobsIdle /\ DecayIdle /\ FetchIdle /\ ListingIdle

\* Reconcile calls one after another.
NextAlerts ==
    \E k \in AlertKeys, in \in AlertInputs, t \in ClockReads :
        Reconcile(k[1], k[2], in[1], in[2], t)

SpecAlerts == Init /\ [][NextAlerts]_vars

\* Reconcile calls of several workers, statement by statement.
NextAlertsConc ==
    \/ \E p \in Procs, k \in AlertKeys, in \in AlertInputs, t \in ClockReads :
           BeginUpsert(p, k[1], k[2], in[1], in[2], t)
    \/ \E p \in Procs : FinishUpsert(p)
    \/ \E p \in Procs, k \in AlertKeys, in \in AlertInputs :
           RemoveCall(p, k[1], k[2], in[1], in[2])

SpecAlertsConc == Init /\ [][NextAlertsConc]_vars

\* Saving forecasts for today and tomorrow: one record, or two records for
\* the same station and date in one batch; a record may lack the risk fields.
StoreRecords(t) ==
    ForecastRecords({FirstDay, FirstDay + 1}, WeatherValues,
                    {{}} \cup {{v} : v \in ComputedRisks}, {t})

NextForecastStore ==
    \/ \E r \in StoreRecords(now + 1) : UpsertForecast(<<r>>, now + 1)
    \/ \E r \in StoreRecords(now + 1) :
           UpsertForecast(<<[r EXCEPT !.weather = "w1"], [r EXCEPT !.weather = "w2"]>>,
                          now + 1)

SpecForecastStore == Init /\ [][NextForecastStore]_vars

\* Reading forecasts from stores of any content.
NextForecastQuery ==
    \/ \E r \in ForecastRecords(ForecastDates, {"w1"}, {{v} : v \in RiskValues}, {now}) :
           UpsertForecast(<<r>>, now)
    \/ \E s \in Stations, days \in 1..MaxDays : GetForecast(s, days)
    \/ NewDay

SpecForecastQuery == Init /\ [][NextForecastQuery]_vars

\* Reading the forecasts of all stations from stores of any content.
NextForecastAll ==
    \/ \E r \in ForecastRecords(ForecastDates, {"w1"}, {{v} : v \in RiskValues}, {now}) :
           UpsertForecast(<<r>>, now)
    \/ \E days \in 1..MaxDays : GetAllForecasts(days)
    \/ NewDay

SpecForecastAll == Init /\ [][NextForecastAll]_vars

\* Observations of the last hour of two days, the minute varying within the
\* hour, with two of the measurement sets.
StoreTimestamps == {Timestamp(d, 23, mi) : d \in ObsDays, mi \in {0, 30}}

StoreMeasurements == {m \in Measurements : m.humidity # {800} \/ m.temperature = {}}

NextObservations ==
    \/ \E data \in WeatherRecords(StoreTimestamps, StoreMeasurements) :
           InsertWeather(<<data>>, now + 1)
    \/ \E data \in WeatherRecords(StoreTimestamps, StoreMeasurements) :
       \E m \in StoreMeasurements :
           InsertWeather(<<data, [data EXCEPT !.m = m]>>, now + 1)
    \/ \E keep \in {0, 1} : CleanupOldData(keep)

SpecObservations == Init /\ [][NextObservations]_vars

\* Observations at noon of one day and in the afternoon of the next, one of
\* them with no temperature; incidents reported at noon and half an hour
\* before midnight of the first day, beside station 1 or far from every
\* station; the first incident reported is later resolved or dismissed.
TrainTimestamps == {Timestamp(FirstDay - 1, 12, 0), Timestamp(FirstDay, 15, 0)}

TrainRecords ==
    {r \in WeatherRecords(TrainTimestamps, Measurements) :
        /\ r.m.temperature # {310}
        /\ r.station_id = 2 => r.timestamp[1] = FirstDay
        /\ r.m.temperature = {} => r.station_id = 1 /\ r.timestamp[1] = FirstDay}

IncidentInputs ==
    {[incident_type |-> "flood", severity |-> "high", location |-> "station1",
      t |-> Timestamp(FirstDay - 1, 12, 0)],
     [incident_type |-> "drought", severity |-> "low", location |-> "station1",
      t |-> Timestamp(FirstDay - 1, 23, 30)],
     [incident_type |-> "flood", severity |-> "medium", location |-> "origin",
      t |-> Timestamp(FirstDay - 1, 23, 30)]}

NextTraining ==
    \/ \E data \in TrainRecords : InsertWeather(<<data>>, now)
    \/ \E i \in IncidentInputs : InsertIncident(i, i.t)
    \/ \E status \in {"resolved", "dismissed"} :
           UpdateIncidentStatus(1, status, Timestamp(FirstDay, 15, 0))
    \/ BuildTrainingData
    \/ TrainModelFromHistory

SpecTraining == Init /\ [][NextTraining]_vars

NextRefresh ==
    \/ \E answered \in SUBSET Stations : \E weather \in WeatherValues :
       \E raw \in {<<30, 0>>, <<130, 70>>} :
           RunForecastRefresh(answered, weather, raw, now + 1)
    \/ \E exists \in BOOLEAN : SetModelArtifact(exists)
    \/ NewDay

SpecRefresh == Init /\ [][NextRefresh]_vars

NextPredict ==
    \/ \E flood_model, drought_model \in BOOLEAN :
       \E raw_flood, raw_drought \in RawOutputs :
           Predict(flood_model, drought_model, raw_flood, raw_drought)
    \/ \E probability \in Probabilities : DeriveLevels(probability)

SpecPredict == Init /\ [][NextPredict]_vars

\* Station 1 observed in three consecutive hours, station 2 in one; readings
\* that are normal, rainy, a little warmer, dry with low pressure, and windy
\* with no temperature.
AnalysisReadings ==
    {[temperature |-> {280}, humidity |-> {700}, precipitation_total |-> {0},
      wind_speed |-> {100}, pressure |-> {10150}],
     [temperature |-> {286}, humidity |-> {700}, precipitation_total |-> {350},
      wind_speed |-> {100}, pressure |-> {10150}],
     [temperature |-> {285}, humidity |-> {550}, precipitation_total |-> {0},
      wind_speed |-> {100}, pressure |-> {10080}],
     [temperature |-> {}, humidity |-> {700}, precipitation_total |-> {0},
      wind_speed |-> {450}, pressure |-> {10150}]}

AnalysisRecords ==
    {r \in WeatherRecords({Timestamp(FirstDay, h, 0) : h \in 10..12},
                          AnalysisReadings) :
        r.station_id = 2 => r.timestamp[2] = 10 /\ r.m.precipitation_total = {350}}

AnalysisHours == {2, 3}

NextAnalysis ==
    \/ \E data \in AnalysisRecords : InsertWeather(<<data>>, now)
    \/ \E station_id \in Stations : \E hours \in AnalysisHours :
           AnalyzeStationRisk(station_id, hours)

SpecAnalysis == Init /\ [][NextAnalysis]_vars

\* The triggers of the three jobs and the ends of their runs.
NextJobs ==
    \/ \E job \in Jobs : SchedulerFires(job)
    \/ \E job \in Jobs : JobReturns(job)
    \/ ExecuteForecastNow
    \/ RunForecastPipelineBackground
    \/ ExecutePipelineNow
    \/ ExecuteTrainingNow
    \/ \E job \in Jobs : RunEnds(job)

SpecJobs == Init /\ [][NextJobs]_vars

\* Incidents submitted beside station 1 (12 km from station 2) in the half
\* hour before midnight, one a minute, or with a type the API refuses;
\* observations of both stations on the next day.
SubmitRecords ==
    {r \in WeatherRecords({Timestamp(FirstDay, 15, 0)}, Measurements) :
        r.m.temperature = {280}}

SubmitInputs ==
    {[incident_type |-> "flood", severity |-> "high", location |-> "station1"],
     [incident_type |-> "fire", severity |-> "high", location |-> "station1"]}

NextSubmit ==
    \/ \E data \in SubmitRecords : InsertWeather(<<data>>, now)
    \/ \E report \in SubmitInputs :
           CreateIncidentReport(report, Timestamp(FirstDay - 1, 23, 30 + incident_seq))
    \/ RetrainModel
    \/ RunEnds("model_training")

SpecSubmit == Init /\ [][NextSubmit]_vars

\* Incidents created at noon; the first two, or an id the table does not
\* hold, updated or deleted the next afternoon.
LifecycleIds == {1, 2}

NextLifecycle ==
    \/ \E report \in SubmitInputs :
           CreateIncidentReport(report, Timestamp(FirstDay - 1, 12, 0))
    \/ \E incident_id \in LifecycleIds : \E status \in Statuses \cup {"closed"} :
           UpdateIncidentReport(incident_id, status, Timestamp(FirstDay, 15, 0))
    \/ \E incident_id \in LifecycleIds :
           DeleteIncidentReport(incident_id, Timestamp(FirstDay, 15, 0))

SpecLifecycle == Init /\ [][NextLifecycle]_vars

\* Distances within the radius, in metres.
DecayDistances ==
    {0, 5000, 10000, 12081, 15000, 20000, 25000, 30000, 35000, 40000, 44416,
     45000, 50000}

NextDecay ==
    \E incident_type \in Hazards : \E severity \in Severities :
    \E d1, d2 \in DecayDistances :
    \E m \in {m \in Measurements : m.temperature = {280}} :
        CorrelateStations(incident_type, severity, d1, d2, m)

SpecDecay == Init /\ [][NextDecay]_vars

\* The API answers for every station, for none, for all but the first, or
\* for the fifth only.
FetchAnswers ==
    {[n \in 1..Len(FetchStations) |-> TRUE],
     [n \in 1..Len(FetchStations) |-> FALSE],
     [n \in 1..Len(FetchStations) |-> n = 1],
     [n \in 1..Len(FetchStations) |-> n = 5]}

NextFetch ==
    \/ \E answers \in FetchAnswers : FetchAllForecasts(answers)
    \/ NewDay

SpecFetch == Init /\ [][NextFetch]_vars

\* Observations of two hours on two days, the later hour on the earlier day:
\* humid and rainy, both at the alert threshold, dry with humidity 0, and dry
\* with no humidity; the first day's observation is humid and rainy or has no
\* humidity; station 2 reports on the second day only, with humidity; purges;
\* and listing passes.
ListTimestamps == {Timestamp(FirstDay - 1, 23, 0), Timestamp(FirstDay, 9, 0)}

ListMeasurements ==
    {[temperature |-> {280}, humidity |-> {1000}, precipitation_total |-> {500},
      wind_speed |-> {100}, pressure |-> {10090}],
     [temperature |-> {280}, humidity |-> {500}, precipitation_total |-> {250},
      wind_speed |-> {100}, pressure |-> {10090}],
     [temperature |-> {280}, humidity |-> {0}, precipitation_total |-> {0},
      wind_speed |-> {100}, pressure |-> {10090}],
     [temperature |-> {280}, humidity |-> {}, precipitation_total |-> {},
      wind_speed |-> {100}, pressure |-> {10090}]}

ListRecords ==
    {r \in WeatherRecords(ListTimestamps, ListMeasurements) :
        /\ r.timestamp[1] = FirstDay - 1 => r.m.humidity \in {{}, {1000}}
        /\ r.station_id = 2 =>
               /\ r.timestamp[1] = FirstDay
               /\ r.m.humidity # {} /\ r.m.humidity # {0}}

NextListing ==
    \/ \E data \in ListRecords : InsertWeather(<<data>>, now)
    \/ \E keep \in {0, 1} : CleanupOldData(keep)
    \/ \E t \in ClockReads : ListAllStations(t)

SpecListing == Init /\ [][NextListing]_vars

\* ------------------------------------------------------- claims C1 to C3
RowsFor(k) == SelectAlert(active_alerts, k[1], k[2])

\* C1: after reconcile(station, hazard, p, level) completes, p >= 0.50 leaves
\* exactly one row for the key, carrying p and level, and p < 0.50 leaves no
\* row for the key, whether or not one existed before the call.
C1_ReconcilePostcondition ==
    \A k \in AlertKeys : \A a \in applied[k] :
        IF a.probability >= 50
        THEN /\ Cardinality(RowsFor(k)) = 1
             /\ \A r \in RowsFor(k) :
                    r.probability = a.probability /\ r.risk_level = a.risk_level
        ELSE RowsFor(k) = {}

\* A row was cleared by a call below the threshold while another key holds
\* the row of a call at or above it.
C1_Witness ==
    /\ \E k \in AlertKeys : \E a \in applied[k] :
           a.probability < 50 /\ a.existed /\ RowsFor(k) = {}
    /\ \E k \in AlertKeys : \E a \in applied[k] :
           a.probability >= 50 /\ RowsFor(k) # {}

\* C2: through a run of reconcile calls on one key that are all >= 0.50 the
\* row keeps the triggered_at of the first call of the run, and carries the
\* probability, risk_level and updated_at of the latest call.
C2_TriggeredAtPreserved ==
    \A k \in AlertKeys : \A a \in applied[k] :
        a.probability >= 50 =>
            /\ RowsFor(k) # {}
            /\ \A r \in RowsFor(k) :
                   /\ r.triggered_at = a.first
                   /\ r.updated_at = a.at
                   /\ r.probability = a.probability
                   /\ r.risk_level = a.risk_level

\* 0.50/YELLOW at some tick, then 0.60/RED at a later tick.
C2_Witness ==
    \E k \in AlertKeys : \E a \in applied[k] : \E r \in RowsFor(k) :
        /\ a.probability = 60 /\ a.risk_level = "RED" /\ a.existed
        /\ a.first < a.at
        /\ r.triggered_at = a.first /\ r.updated_at = a.at

\* A step that completes a reconcile with the arguments of the previous one.
RepeatedCall ==
    \E c \in last_call : \E d \in last_call' :
        d.args = c.args /\ d.times = c.times + 1

\* What of an alert row does not record when it was last evaluated.
AlertView(store) ==
    {[station_id |-> r.station_id, alert_type |-> r.alert_type,
      risk_level |-> r.risk_level, probability |-> r.probability,
      triggered_at |-> r.triggered_at] : r \in store}

\* C3 as stated: re-applying the same reconcile leaves the alert store
\* exactly as the first application left it.
C3_Original == [][RepeatedCall => active_alerts' = active_alerts]_vars

\* C3: re-applying the same (station, hazard, probability, risk_level)
\* leaves the existence of the row, its probability, risk_level and
\* triggered_at as the first application left them; only updated_at moves
\* to the time of the latest application.
C3_IdempotentUpToUpdatedAt ==
    [][RepeatedCall =>
          /\ AlertView(active_alerts') = AlertView(active_alerts)
          /\ \A r \in active_alerts' \ active_alerts :
                 r.updated_at = now' /\ r.updated_at > r.triggered_at]_vars

\* The same call applied twice, the second time later than the first.
C3_Witness ==
    \E c \in last_call :
        /\ c.times >= 2
        /\ c.args[3] >= 50
        /\ \E r \in SelectAlert(active_alerts, c.args[1], c.args[2]) :
               r.updated_at > r.triggered_at

\* C4: the active-alert store never holds two rows for one
\* (station_id, alert_type), whatever the interleaving of upsert_alert and
\* remove_alert calls.
C4_UniqueAlertPerKey ==
    \A k \in AlertKeys : Cardinality(RowsFor(k)) <= 1

\* An INSERT of a call that had found no row was rejected by the UNIQUE
\* constraint, because an overlapping call had inserted the row meanwhile.
C4_Witness ==
    /\ alert_errors > 0
    /\ \E k \in AlertKeys : Cardinality(RowsFor(k)) = 1

\* ------------------------------------------------------- claims C5 and C7
\* rows holds n rows of `from` (all of them if there are fewer), those that
\* come first by date in the given direction, in that order.
IsDatePrefix(rows, from, n, ascending) ==
    LET Before(a, b) == IF ascending THEN a.forecast_date < b.forecast_date
                        ELSE a.forecast_date > b.forecast_date
    IN  /\ Len(rows) = IF Cardinality(from) < n THEN Cardinality(from) ELSE n
        /\ \A i \in 1..Len(rows) : rows[i] \in from
        /\ \A i, j \in 1..Len(rows) : i < j => Before(rows[i], rows[j])
        /\ \A r \in from : (\A i \in 1..Len(rows) : rows[i] # r) =>
               \A i \in 1..Len(rows) : Before(rows[i], r)

NonZeroRisk(r) == r.flood_probability # 0 \/ r.drought_probability # 0

\* C5: get_forecast(station, days) returns the station's rows from today on,
\* ascending, at most `days`, when one of those rows has a non-zero flood or
\* drought probability; otherwise it returns the station's rows with a
\* non-zero probability, latest date first, at most `days`, from any date.
C5_ForecastFallback ==
    \A q \in fc_query :
        LET mine == {r \in weather_forecast : r.station_id = q.station_id}
            upcoming == {r \in mine : r.forecast_date >= today}
            \* the rows of `upcoming` among its first `days` by date
            primary == {r \in upcoming :
                          Cardinality({o \in upcoming :
                                         o.forecast_date < r.forecast_date}) < q.days}
        IN  IF \E r \in primary : NonZeroRisk(r)
            THEN IsDatePrefix(q.rows, upcoming, q.days, TRUE)
            ELSE IsDatePrefix(q.rows, {r \in mine : NonZeroRisk(r)}, q.days, FALSE)

\* Today's row is zeroed and the five-day-old row with flood probability 0.4
\* is what the query returned.
C5_Witness ==
    \E q \in fc_query :
        /\ \E r \in weather_forecast :
               /\ r.station_id = q.station_id /\ r.forecast_date = today
               /\ ~NonZeroRisk(r)
        /\ Len(q.rows) = 1
        /\ q.rows[1].forecast_date = today - 5
        /\ q.rows[1].flood_probability = 40

\* C7: the forecast store holds exactly one row per (station_id,
\* forecast_date) ever upserted, and the row's weather fields, risk fields
\* and retrieved_at are those of the most recent upsert for the key.
C7_ForecastUpsertOverwrites ==
    \A k \in ForecastKeys :
        LET rows == SelectForecast(weather_forecast, k[1], k[2]) IN
        IF fc_applied[k] = {}
        THEN rows = {}
        ELSE /\ Cardinality(rows) = 1
             /\ \A r \in rows : \A rec \in fc_applied[k] :
                    /\ r.weather = rec.weather
                    /\ r.retrieved_at = rec.retrieved_at
                    /\ IF rec.risk = {}
                       THEN /\ r.flood_probability = 0 /\ r.drought_probability = 0
                            /\ r.flood_level = "GREEN" /\ r.drought_level = "GREEN"
                            /\ r.flood_alert = 0 /\ r.drought_alert = 0
                       ELSE \A v \in rec.risk :
                            /\ r.flood_probability = v.flood_probability
                            /\ r.drought_probability = v.drought_probability
                            /\ r.flood_level = v.flood_level
                            /\ r.drought_level = v.drought_level
                            /\ r.flood_alert = 1 <=> v.flood_alert
                            /\ r.drought_alert = 1 <=> v.drought_alert
                            /\ r.flood_alert \in {0, 1} /\ r.drought_alert \in {0, 1}

\* A row written at one tick was overwritten at a later one, the later
\* record carrying no risk fields.
C7_Witness ==
    \E r \in weather_forecast :
        /\ r.created_at < r.updated_at
        /\ r.retrieved_at = r.updated_at
        /\ fc_applied[<<r.station_id, r.forecast_date>>] # {}
        /\ \A rec \in fc_applied[<<r.station_id, r.forecast_date>>] : rec.risk = {}

\* ------------------------------------------------------------- claim C6
\* C6: with no cleanup, the observation store holds exactly one row per
\* (station_id, date, hour) ever inserted; the row's measurement fields and
\* updated_at are those of the most recent insert for the key and its
\* created_at that of the first.
C6_ObservationUpsert ==
    ~obs_cleaned =>
        \A k \in ObsKeys :
            LET rows == SelectWeather(weather_hourly, k[1], k[2], k[3]) IN
            IF obs_applied[k] = {}
            THEN rows = {}
            ELSE /\ Cardinality(rows) = 1
                 /\ \A r \in rows : \A h \in obs_applied[k] :
                        /\ r.m = h.data.m
                        /\ r.updated_at = h.last
                        /\ r.created_at = h.first

\* The same (station_id, date, hour) inserted twice, at different minutes and
\* with different measurements, the second time later.
C6_Witness ==
    /\ ~obs_cleaned
    /\ \E r \in weather_hourly :
           /\ r.created_at < r.updated_at
           /\ r.timestamp[3] = 30
           /\ r.m.temperature = {310}

\* ------------------------------------------------------- claims C8 to C10
\* Minutes since day 0.
Minutes(timestamp) == (timestamp[1] * 24 + timestamp[2]) * 60 + timestamp[3]

\* The observation was made within one hour of the report, before or after.
InWindow(r, incident) ==
    /\ Minutes(r.timestamp) >= Minutes(incident.reported_at) - 60
    /\ Minutes(r.timestamp) <= Minutes(incident.reported_at) + 60

SamplesOf(samples, incident_id, station_id) ==
    {n \in 1..Len(samples) : /\ samples[n].incident_id = incident_id
                             /\ samples[n].station_id = station_id}

FeaturesOf(r, sample) ==
    /\ r.m.temperature = {sample.temperature}
    /\ r.m.humidity = {sample.humidity}
    /\ r.m.precipitation_total = {sample.precipitation_total}
    /\ r.m.wind_speed = {sample.wind_speed}
    /\ r.m.pressure = {sample.pressure}

\* C8: build_training_data yields exactly one sample per (incident, station)
\* such that the station is within 50 km of the incident and has an
\* observation in the time window, and none for any other pair; incidents of
\* every status contribute; a sample's label is non-zero only for the
\* incident's own hazard.
C8_OneSamplePerNearStationInWindow ==
    \A tr \in training : \A i \in incident_reports : \A s \in Stations :
        LET near == haversine_distance(i.location, s) <= MaxDistance
            observed == \E r \in weather_hourly :
                            r.station_id = s /\ InWindow(r, i)
            got == SamplesOf(tr.samples, i.id, s)
        IN  /\ Cardinality(got) = IF near /\ observed THEN 1 ELSE 0
            /\ \A n \in got :
                   /\ i.incident_type = "flood" => tr.samples[n].drought_risk = 0
                   /\ i.incident_type = "drought" => tr.samples[n].flood_risk = 0

\* C9: every sample's weather features are those of an observation of its
\* station made within one hour of the incident's reported_at, the nearest
\* such observation in time; a station whose observations all lie outside the
\* window yields no sample.
C9_FeaturesFromNearestInWindow ==
    \A tr \in training : \A n \in 1..Len(tr.samples) :
        \A i \in incident_reports :
            i.id = tr.samples[n].incident_id =>
                \E r \in weather_hourly :
                    /\ r.station_id = tr.samples[n].station_id
                    /\ InWindow(r, i)
                    /\ FeaturesOf(r, tr.samples[n])
                    /\ \A q \in weather_hourly :
                           (q.station_id = r.station_id /\ InWindow(q, i)) =>
                               LET Gap(x) ==
                                       IF Minutes(x.timestamp) >= Minutes(i.reported_at)
                                       THEN Minutes(x.timestamp) - Minutes(i.reported_at)
                                       ELSE Minutes(i.reported_at) - Minutes(x.timestamp)
                               IN  Gap(r) <= Gap(q)

\* C10: with zero incidents, training takes the synthetic path and finishes
\* with both models trained and saved, returning metrics.
C10_NoIncidentsTrainsOnSynthetic ==
    \A o \in train_outcome :
        o.incidents = 0 =>
            /\ o.result = "metrics"
            /\ o.flood_model /\ o.drought_model
            /\ o.saved

\* ------------------------------------------------------ claims C11 to C14
\* C11: when no trained model artifact exists at a forecast refresh, the
\* records the refresh stores carry probabilities produced by the heuristic
\* scorer, not zero placeholders.
C11_HeuristicWhenNoModel ==
    \A run \in fc_refresh :
        (~run.artifact /\ run.stored # {}) =>
            /\ run.scorer = "heuristic"
            /\ \A r \in weather_forecast :
                   <<r.station_id, r.forecast_date>> \in run.stored =>
                       r.flood_probability # 0 \/ r.drought_probability # 0
C13_PredictClamps ==
    \A p \in prediction : \A r \in p.out.risks :
        LET Within(raw, risk) ==
                /\ risk >= 0 /\ risk <= 100
                /\ raw < 0 => risk = 0
                /\ raw > 100 => risk = 100
                /\ (raw >= 0 /\ raw <= 100) => risk = raw
        IN  Within(p.raw_flood, r.flood_risk) /\ Within(p.raw_drought, r.drought_risk)

\* predict returned for raw outputs below 0 and above 1.
C13_Witness ==
    \E p \in prediction :
        /\ p.raw_flood < 0 /\ p.raw_drought > 100
        /\ \E r \in p.out.risks : r.flood_risk = 0 /\ r.drought_risk = 100

ReadingsOf(station_id) == {r \in weather_hourly : r.station_id = station_id}

Later(q, r) == q.date > r.date \/ (q.date = r.date /\ q.hour > r.hour)

RankOf(r) == 1 + Cardinality({q \in ReadingsOf(r.station_id) : Later(q, r)})

RECURSIVE SumOver(_, _)
SumOver(rows, metric) ==
    IF rows = {}
    THEN 0
    ELSE LET r == CHOOSE r \in rows : TRUE IN
         (CHOOSE v \in r.m[metric] : TRUE) + SumOver(rows \ {r}, metric)

\* How many readings a call fetched.
Fetched(a) ==
    IF Cardinality(ReadingsOf(a.station_id)) < a.hours
    THEN Cardinality(ReadingsOf(a.station_id))
    ELSE a.hours

\* C15: whenever analyze_station_risk returns an analysis, risk_score is the
\* maximum of the scores of the factors computed for the current reading and
\* risk_level is bajo below 30, moderado from 30 to 59, alto from 60 to 79
\* and critico from 80; precipitation_total 35 with every other metric normal
\* gives 95 and critico.
C15_ScoreIsMaxOfFactors ==
    \A a \in analysis : \A r \in a.result :
        /\ r.factors = {} => r.risk_score = 0
        /\ r.factors # {} =>
               /\ \E f \in r.factors : f.score = r.risk_score
               /\ \A f \in r.factors : f.score <= r.risk_score
        /\ Cardinality(r.factors)
               = Cardinality({metric \in Metrics : r.current_metrics[metric] # {}})
        /\ r.risk_level = IF r.risk_score < 30 THEN "bajo"
                          ELSE IF r.risk_score < 60 THEN "moderado"
                          ELSE IF r.risk_score < 80 THEN "alto"
                          ELSE "critico"
        /\ (/\ r.current_metrics.precipitation_total = {350}
            /\ \A f \in r.factors : f.metric # "precipitation" => f.score = 0)
               => r.risk_score = 95 /\ r.risk_level = "critico"

\* An analysis of a dry reading with low pressure, two factors scoring 30 and
\* 55, and one of the rainy reading.
C15_Witness ==
    /\ \E a \in analysis : \E r \in a.result :
           /\ r.risk_score = 55 /\ r.risk_level = "moderado"
           /\ \E f \in r.factors : f.score = 30
    /\ \E r \in weather_hourly : r.m.precipitation_total = {350}

\* C16: analyze_station_risk returns None when the station has no
\* observations; when it has some, the most recent one is the current reading
\* and the following ones, up to hours - 1 of them, are the historical
\* baseline.
C16_CurrentAndBaseline ==
    \A a \in analysis :
        IF ReadingsOf(a.station_id) = {}
        THEN a.result = {}
        ELSE /\ a.result # {}
             /\ \A r \in a.result :
                    LET baseline == {q \in ReadingsOf(a.station_id) :
                                        RankOf(q) >= 2 /\ RankOf(q) <= a.hours}
                        With(metric) == {q \in baseline : q.m[metric] # {}}
                    IN  /\ \E cur \in ReadingsOf(a.station_id) :
                               /\ RankOf(cur) = 1
                               /\ r.timestamp = cur.timestamp
                               /\ r.current_metrics = cur.m
                        /\ \A metric \in Metrics :
                               r.historical_avg[metric] =
                                   IF With(metric) = {}
                                   THEN {}
                                   ELSE {<<SumOver(With(metric), metric),
                                           Cardinality(With(metric))>>}

\* Three observations of a station analyzed with hours = 2: the oldest is
\* outside the baseline.
C16_Witness ==
    \E a \in analysis :
        /\ Cardinality(ReadingsOf(a.station_id)) = 3
        /\ a.hours = 2
        /\ \E r \in a.result : \E avg \in r.historical_avg.pressure : avg[2] = 1

\* The non-null values of a metric in the up to three most recent readings a
\* call fetched, most recent first.
RecentValues(a, metric) ==
    LET Val(k) == IF k > Fetched(a)
                  THEN <<>>
                  ELSE LET r == CHOOSE r \in ReadingsOf(a.station_id) : RankOf(r) = k
                       IN  IF r.m[metric] = {} THEN <<>>
                           ELSE <<CHOOSE v \in r.m[metric] : TRUE>>
    IN  Val(1) \o Val(2) \o Val(3)

TrendWord(change) ==
    IF 2 * change > 10 THEN "subiendo"
    ELSE IF 2 * change < -10 THEN "bajando"
    ELSE "estable"

C18_AtMostOneInstance == \A job \in Jobs : job_running[job] <= 1

\* C19: a ModelRetraining thread starts retraining only if at least 10
\* incidents exist in the incident store; with fewer than 10 it skips the
\* retraining without error; and every valid submission is answered with
\* success and its incident is stored.
C19_RetrainOnlyFromTenIncidents ==
    /\ \A l \in retrain_log :
           /\ l.retrain => l.incidents >= 10
           /\ l.incidents < 10 => ~l.retrain /\ l.warning = {}
    /\ \A a \in incident_api :
           a.op = "create" /\ a.code # 400 =>
               /\ a.code = 200
               /\ \E r \in a.after : r.id = a.id /\ r \notin a.before

RowOf(reports, incident_id) == {r \in reports : r.id = incident_id}

\* C20: an incident report is created active with no resolved_at; an update
\* to resolved sets status resolved and resolved_at to the time of the
\* update; an update to dismissed sets status dismissed; a delete removes the
\* row; an update or delete of an id the table does not hold is answered
\* not-found and changes no row.
C20_IncidentLifecycle ==
    \A a \in incident_api :
        LET old == RowOf(a.before, a.id)
            new == RowOf(a.after, a.id)
            Others(reports) == reports \ RowOf(reports, a.id)
        IN  /\ a.code # 400 => Others(a.after) = Others(a.before)
            /\ a.code = 400 => a.after = a.before
            /\ a.op = "create" /\ a.code # 400 =>
                   /\ a.code = 200 /\ old = {}
                   /\ Cardinality(new) = 1
                   /\ \A r \in new : r.status = "active" /\ r.resolved_at = {}
            /\ a.op = "update" /\ a.code # 400 /\ old # {} =>
                   /\ a.code = 200
                   /\ Cardinality(new) = 1
                   /\ \A r \in new :
                          /\ r.status = a.status
                          /\ a.status = "resolved" => r.resolved_at = {a.t}
            /\ a.op = "delete" /\ old # {} => a.code = 200 /\ new = {}
            /\ a.op \in {"update", "delete"} /\ a.code # 400 /\ old = {} =>
                   a.code = 404 /\ a.after = a.before

\* The first incident was deleted and a second delete of its id is answered
\* not-found, while the second incident, created active, stands resolved
\* with the time of its update.
C20_Witness ==
    /\ \E a \in incident_api :
           a.op = "delete" /\ a.id = 1 /\ a.code = 404 /\ incident_seq >= 2
    /\ \E r \in incident_reports :
           /\ r.id = 2 /\ r.status = "resolved"
           /\ r.resolved_at = {Timestamp(FirstDay, 15, 0)}
           /\ r.created_at # Timestamp(FirstDay, 15, 0)

\* ------------------------------------------------------ claims C21 to C23
\* The observations get_incident_training_data fetches for a pair; the first
\* is the one it uses.
MatchedObservations(incident, station_id) ==
    get_data_by_date_range(weather_hourly,
                           IsoText(AddHours(incident.reported_at, -1)),
                           IsoText(AddHours(incident.reported_at, 1)),
                           station_id)

NullAsZero(x) == IF x = {} THEN {0} ELSE x

\* C21: a null measurement in the observation matched to an (incident,
\* station) pair counts as 0: the pair still yields its sample, with 0 for
\* the null feature, and so do the other stations of the incident.
C21_NullMeasurementIsZero ==
    \A tr \in training : \A i \in incident_reports : \A s \in Stations :
        LET weather_data == MatchedObservations(i, s) IN
        (haversine_distance(i.location, s) <= MaxDistance /\ weather_data # <<>>) =>
            \E n \in SamplesOf(tr.samples, i.id, s) :
                /\ NullAsZero(weather_data[1].m.temperature)
                       = {tr.samples[n].temperature}
                /\ NullAsZero(weather_data[1].m.humidity)
                       = {tr.samples[n].humidity}
                /\ NullAsZero(weather_data[1].m.precipitation_total)
                       = {tr.samples[n].precipitation_total}
                /\ NullAsZero(weather_data[1].m.wind_speed)
                       = {tr.samples[n].wind_speed}
                /\ NullAsZero(weather_data[1].m.pressure)
                       = {tr.samples[n].pressure}

\* C22: a write to the store that fails while an observation, a forecast
\* record or an alert is persisted is reported to the caller as a failure:
\* no failed write ends as a logged warning and a normal return.
C22_WriteFailureReported == alert_errors = 0

LabelOf(l, sample) ==
    IF l.incident_type = "flood" THEN sample.flood_risk ELSE sample.drought_risk

C24_SkipAfterTenFailuresToday ==
    \A run \in fetch_run :
        LET failed_today == IF run.before.last_attempt_date = {run.day}
                            THEN run.before.failed_today ELSE 0
        IN  /\ ~run.attempted <=> failed_today >= 10
            /\ ~run.attempted =>
                   \A n \in 1..Len(run.forecasts) :
                       run.forecasts[n].source = "simulated"
            /\ (run.called # <<>> /\ run.answers[run.called[Len(run.called)]]) =>
                   api_state.consecutive_failures = 0

\* The failed fetches of a run since its last answered one, up to the k-th call.
Streak(run, k) ==
    LET answered == {j \in 1..k : run.answers[run.called[j]]} IN
    IF answered = {}
    THEN k
    ELSE k - (CHOOSE j \in answered : \A q \in answered : q <= j)

\* C25: a run that attempts the API calls the stations in catalog order and
\* no further station once 5 fetches in a row have failed, an answered fetch
\* starting the count again; and when the limit is reached the returned list
\* holds a simulated forecast of every station for today and for tomorrow.
C25_StopAfterFiveConsecutiveErrors ==
    \A run \in fetch_run :
        run.attempted =>
            /\ run.called = SubSeq(FetchStations, 1, Len(run.called))
            /\ \A k \in 1..(Len(run.called) - 1) : Streak(run, k) < 5
            /\ run.limit <=> (run.called # <<>> /\ Streak(run, Len(run.called)) >= 5)
            /\ ~run.limit => Len(run.called) = Len(FetchStations)
            /\ run.limit =>
                   \A n \in 1..Len(FetchStations) : \A d \in {run.day, run.day + 1} :
                       \E m \in 1..Len(run.forecasts) :
                           run.forecasts[m] = [station_id |-> FetchStations[n],
                                               forecast_date |-> d,
                                               source |-> "simulated"]

\* The first station answers and the next five do not: the seventh is not
\* called, and the list holds the first station's two records and fourteen
\* simulated ones.
C25_Witness ==
    \E run \in fetch_run :
        /\ run.attempted /\ run.limit
        /\ run.answers[1]
        /\ run.called = <<1, 2, 3, 4, 5, 6>>
        /\ Len(run.forecasts) = 16

\* C26: the list get_all_forecasts(days) holds under a station is the list
\* get_forecast_by_station returns for it with the same days, and a station
\* is absent from the map exactly when that list is empty.
C26_AllForecastsAgreeWithPerStation ==
    \A q \in fc_all : \A s \in Stations :
        LET rows == get_forecast_by_station(weather_forecast, s, q.days, today) IN
        /\ s \in DOMAIN q.forecasts => q.forecasts[s] = rows
        /\ s \notin DOMAIN q.forecasts <=> rows = <<>>

\* ------------------------------------------------------ claims C27 to C30
\* The completed calls on one key: the part of `history` with that key.
CallsOn(k) ==
    LET on == {a \in BagToSet(history) : a[1] = k[1] /\ a[2] = k[2]}
    IN  [a \in on |-> history[a]]

\* What is compared: whether the key has a row, and its probability and level.
AlertRow(store, k) ==
    {<<r.probability, r.risk_level>> : r \in SelectAlert(store, k[1], k[2])}

\* The stores the calls of the bag `todo` leave when each runs to its end
\* before the next starts, in every order.
RECURSIVE SerialOutcomes(_, _)
SerialOutcomes(store, todo) ==
    IF BagToSet(todo) = {} THEN {store}
    ELSE UNION {SerialOutcomes(manage_alert(store, a[1], a[2], a[3], a[4], 0),
                               todo (-) SetToBag({a})) : a \in BagToSet(todo)}

\* C27: once overlapping reconcile calls for one (station, hazard) have all
\* returned, the alert row of that key (present or not, probability, risk
\* level) is what the same calls leave when run one after another in some
\* order.
C27_ConcurrentCallsSerializable ==
    InFlight = {} =>
        \A k \in AlertKeys :
            AlertRow(active_alerts, k) \in
                {AlertRow(s, k) : s \in SerialOutcomes({}, CallsOn(k))}

\* Two upserts of one key overlapped (the second INSERT was rejected), a
\* third call on the key completed, and nothing is in flight.
C27_Witness ==
    /\ InFlight = {}
    /\ alert_errors > 0
    /\ \E k \in AlertKeys :
           /\ BagCardinality(CallsOn(k)) = 3
           /\ Cardinality(BagToSet(CallsOn(k))) > 1
           /\ AlertRow(active_alerts, k) # {}

\* The response and the table agree on one station and hazard.
Agrees(response, s, h) ==
    response[s][h].alert <=> SelectAlert(active_alerts, s, h) # {}

\* C28: after a listing pass with no other writer, for every catalog station
\* and hazard an alert row exists exactly when the response reports
\* alert = true, stations with no observation included.
C28_StoreAgreesWithResponse ==
    \A response \in listing : \A s \in Stations, h \in Hazards : Agrees(response, s, h)

\* C29: every row of active_alerts the listing pass wrote has probability of
\* at least 0.50 and risk level YELLOW or RED.
C29_WrittenRowsAreAlerts ==
    \A r \in active_alerts :
        r.probability >= 50 /\ r.risk_level \in {"YELLOW", "RED"}

\* A pass wrote a row at exactly 0.50 (YELLOW) and a row at the 0.95 cap (RED).
C29_Witness ==
    /\ listing # {}
    /\ \E r \in active_alerts : r.probability = 50 /\ r.risk_level = "YELLOW"
    /\ \E r \in active_alerts : r.probability = 95 /\ r.risk_level = "RED"

\* C30: whatever status updates among active, resolved and dismissed were
\* made, an incident report has a resolved_at only while its status is
\* resolved.
C30_ResolvedAtOnlyWhenResolved ==
    \A r \in incident_reports : r.resolved_at # {} => r.status = "resolved"
====
